---- MODULE Spec2Model ----
(***************************************************************************)
(* SlipLib (src/src/sliplib): the SLIP escape codec (encode, decode,       *)
(* is_valid), the Driver that buffers received bytes into packets and      *)
(* hands out decoded messages, a sender/receiver pair of Drivers joined   *)
(* by a byte stream, and the global setting USE_LEADING_END_BYTE with its  *)
(* lock and its scoped override under threads.                             *)
(*                                                                         *)
(* A bytes object is a sequence of byte values.  The outcome of a call is  *)
(* a record [kind, val]: kind "return" with the returned value, kind       *)
(* "None" for a returned None, kind "ProtocolError" with the exception's   *)
(* args tuple.                                                             *)
(***************************************************************************)
EXTENDS Integers, Sequences, FiniteSets, TLC

VARIABLES
    USE_LEADING_END_BYTE,  \* config._USE_LEADING_END_BYTE
    tx,                    \* the sending Driver: [_prefix, _finished, _recv_buffer, _packets]
    rx,                    \* the receiving Driver
    wire,                  \* bytes written by the sender and not yet read by the receiver
    sent,                  \* history: the messages passed to tx.send, in call order
    received,              \* history: the bytes appended to rx._recv_buffer, in order
    queued,                \* history: the packets put on rx._packets, in order
    outcomes,              \* history: the outcome of every rx.get that took a packet
    msg,                   \* codec: the argument of the call
    op,                    \* codec: the call made ("idle" before it)
    out,                   \* codec: the outcome of the call
    lock,                  \* config._use_leading_end_byte_lock, an RLock: [owner, count]
    pc,                    \* per thread: where it is in use_leading_end_byte ("run" outside it)
    scopes,                \* per thread: the frames of its open use_leading_end_byte calls, outermost first
    born,                  \* history: who constructed tx, and under which scopes
    event,                 \* a threading.Event and its users: [is_set, entered, waited]
    stream,                \* the wrapped stream as the SlipWrapper used it: [handed, eof]
    call,                  \* the recv_msg call of the SlipWrapper in progress: [pc, data]
    returned,              \* history: the outcome of every recv_msg call, in call order
    iteration,             \* the iterator over the SlipWrapper: [gen, start, calls, yielded]
    receiving,             \* per thread: its receive call on rx, statement by statement
    producer,              \* the thread that calls receive: [pc, pending]
    consumer               \* the thread that calls get: [pc]

codecVars == <<msg, op, out>>
linkVars == <<tx, wire, sent>>
rxVars == <<rx, received, queued, outcomes>>
cfgVars == <<lock, pc, scopes, born, event>>
wrapVars == <<stream, call, returned, iteration>>
spscVars == <<producer, consumer, receiving>>
vars == <<USE_LEADING_END_BYTE, tx, rx, wire, sent, received, queued, outcomes, msg, op, out,
          lock, pc, scopes, born, event, stream, call, returned, iteration, producer, consumer,
          receiving>>

(***************************************************************************)
(* Bounds                                                                  *)
(***************************************************************************)
\* longest argument of a codec call
MaxLen == 3
\* most bytes ever appended to the receive buffer of the Driver fed freely
MaxRecv == 6
\* longest bytes object passed to one receive call
MaxData == 2
\* most bytes ever written to the wire by the sending Driver
MaxWire == 7

(***************************************************************************)
(* The special bytes, _Configuration._END .. _ESC_ESC                      *)
(***************************************************************************)
END == 192
ESC == 219
ESC_END == 220
ESC_ESC == 221
\* an ordinary byte, the NUL of test_message_with_zero_byte_decoding
NUL == 0

\* the byte values of codec arguments
Byte == {NUL, END, ESC, ESC_END, ESC_ESC}
\* the byte values fed to a Driver from outside
WireByte == {NUL, END, ESC, ESC_END}
\* the byte values of the messages a Driver sends
MsgByte == {NUL, END, ESC}

Min(a, b) == IF a < b THEN a ELSE b

\* the byte strings over S of length at most n
BSeq(S, n) == UNION {[1..k -> S] : k \in 0..n}

(***************************************************************************)
(* Outcomes of a call                                                      *)
(***************************************************************************)
Return(v) == [kind |-> "return", val |-> v]
None == [kind |-> "None", val |-> <<>>]
\* raise ProtocolError(packet): args == (packet,)
ProtocolError(packet) == [kind |-> "ProtocolError", val |-> <<packet>>]

(***************************************************************************)
(* Python's bytes operations used by the codec and the Driver              *)
(***************************************************************************)
\* s.replace(old, new): every non-overlapping occurrence, left to right
RECURSIVE replace(_, _, _)
replace(s, old, new) ==
    IF Len(s) < Len(old) THEN s
    ELSE IF SubSeq(s, 1, Len(old)) = old
         THEN new \o replace(SubSeq(s, Len(old) + 1, Len(s)), old, new)
         ELSE <<Head(s)>> \o replace(Tail(s), old, new)

\* b in s, for a single byte b
contains(s, b) == \E i \in 1..Len(s) : s[i] = b

\* s.endswith(b), for a single byte b
endswith(s, b) == Len(s) > 0 /\ s[Len(s)] = b

\* re.search(ESC + b"[^" + ESC_END + ESC_ESC + b"]", s) finds a match
search_bad_escape(s) ==
    \E i \in 1..(Len(s) - 1) : s[i] = ESC /\ s[i + 1] \notin {ESC_END, ESC_ESC}

(***************************************************************************)
(* The escape codec                                                        *)
(***************************************************************************)
\* a plausible slip: the END bytes are escaped first, the ESC bytes second
encode_end_first(m) ==
    replace(replace(m, <<END>>, <<ESC, ESC_END>>), <<ESC>>, <<ESC, ESC_ESC>>)

\* a plausible slip: the END bytes are not escaped
encode_esc_only(m) == replace(m, <<ESC>>, <<ESC, ESC_ESC>>)

encode(m) ==
    replace(replace(m, <<ESC>>, <<ESC, ESC_ESC>>), <<END>>, <<ESC, ESC_END>>)

\* a plausible slip: the trailing ESC is not looked for
is_valid_no_trailing(packet) ==
    ~(contains(packet, END) \/ search_bad_escape(packet))

is_valid(packet) ==
    ~(contains(packet, END) \/ endswith(packet, ESC) \/ search_bad_escape(packet))

\* a plausible slip: the ESC,ESC_ESC pairs are replaced first
decode_esc_first(packet) ==
    IF ~is_valid(packet) THEN ProtocolError(packet)
    ELSE Return(replace(replace(packet, <<ESC, ESC_ESC>>, <<ESC>>), <<ESC, ESC_END>>, <<END>>))

\* a plausible slip: the packet is not validated before it is unescaped
decode_unchecked(packet) ==
    Return(replace(replace(packet, <<ESC, ESC_END>>, <<END>>), <<ESC, ESC_ESC>>, <<ESC>>))

decode(packet) ==
    IF ~is_valid(packet) THEN ProtocolError(packet)
    ELSE Return(replace(replace(packet, <<ESC, ESC_END>>, <<END>>), <<ESC, ESC_ESC>>, <<ESC>>))

(***************************************************************************)
(* Driver                                                                  *)
(***************************************************************************)
\* Driver.__init__, with use_leading the value config.USE_LEADING_END_BYTE
\* has when the constructor runs
\* a plausible slip: the setting is not looked at, no Driver sends a leading END
Driver_init_never_leading(use_leading) ==
    [_prefix |-> <<>>,
     _finished |-> FALSE,
     _recv_buffer |-> <<>>,
     _packets |-> <<>>]

\* Driver.__init__, with the value config.USE_LEADING_END_BYTE has at the call
Driver_init(use_leading) ==
    [_prefix |-> IF use_leading THEN <<END>> ELSE <<>>,
     _finished |-> FALSE,
     _recv_buffer |-> <<>>,
     _packets |-> <<>>]

\* a plausible slip: the END that closes the packet is left out
send_without_trailing_end(d, message) == d._prefix \o encode(message)

\* a plausible slip: the prefix captured at construction is left out
send_without_prefix(d, message) == encode(message) \o <<END>>

\* a plausible slip: send looks at the setting of the moment, as legacy.encode does
send_current_setting(d, message) ==
    (IF USE_LEADING_END_BYTE THEN <<END>> ELSE <<>>) \o encode(message) \o <<END>>

\* Driver.send
send(d, message) == d._prefix \o encode(message) \o <<END>>

\* a plausible slip: the leading END bytes are left in the buffer
lstrip_nothing(s, b) == s

\* s.lstrip(b), for a single byte b
RECURSIVE lstrip(_, _)
lstrip(s, b) == IF s # <<>> /\ Head(s) = b THEN lstrip(Tail(s), b) ELSE s

\* the index of the first END of s, 0 when s holds none
first_end(s) ==
    IF contains(s, END)
    THEN CHOOSE i \in 1..Len(s) : s[i] = END /\ \A k \in 1..(i - 1) : s[k] # END
    ELSE 0

\* the index of the last byte of the run of END bytes that starts at i
run_end(s, i) ==
    CHOOSE j \in i..Len(s) :
        /\ \A k \in i..j : s[k] = END
        /\ (j = Len(s) \/ s[j + 1] # END)

\* a plausible slip: re.split(END, s), every END byte a separator of its own
RECURSIVE re_split_each(_)
re_split_each(s) ==
    LET i == first_end(s)
    IN  IF i = 0 THEN <<s>>
        ELSE <<SubSeq(s, 1, i - 1)>> \o re_split_each(SubSeq(s, i + 1, Len(s)))

\* re.split(END + b"+", s): the pieces of s between its runs of END bytes
RECURSIVE re_split(_)
re_split(s) ==
    LET i == first_end(s)
    IN  IF i = 0 THEN <<s>>
        ELSE <<SubSeq(s, 1, i - 1)>> \o re_split(SubSeq(s, run_end(s, i) + 1, Len(s)))

\* a plausible slip: the test for empty data comes before the conversion, so
\* the integer 0 counts as empty
int_to_bytes_zero_is_empty(n) == IF n = 0 THEN <<>> ELSE <<n>>

\* bytes((data,)) for an integer data
int_to_bytes(n) == <<n>>

\* a plausible slip: the bytes buffered by earlier calls are not carried over
receive_forget_buffer(d, data) ==
    LET finished == d._finished \/ data = <<>>
        effective == IF data = <<>> THEN <<END>> ELSE data
        stripped == lstrip(effective, END)
        pieces == re_split(stripped)
        n == Len(pieces)
    IN  [d EXCEPT !._finished = finished,
                  !._recv_buffer = pieces[n],
                  !._packets = @ \o SubSeq(pieces, 1, n - 1)]

\* a plausible slip: empty data marks the end but flushes nothing
receive_no_flush(d, data) ==
    LET finished == d._finished \/ data = <<>>
        stripped == lstrip(d._recv_buffer \o data, END)
        pieces == re_split(stripped)
        n == Len(pieces)
    IN  [d EXCEPT !._finished = finished,
                  !._recv_buffer = pieces[n],
                  !._packets = @ \o SubSeq(pieces, 1, n - 1)]

\* a plausible slip: receive inspects the escapes and queues valid packets only
receive_valid_only(d, data) ==
    LET finished == d._finished \/ data = <<>>
        effective == IF data = <<>> THEN <<END>> ELSE data
        stripped == lstrip(d._recv_buffer \o effective, END)
        pieces == re_split(stripped)
        n == Len(pieces)
    IN  [d EXCEPT !._finished = finished,
                  !._recv_buffer = pieces[n],
                  !._packets = @ \o SelectSeq(SubSeq(pieces, 1, n - 1), is_valid)]

\* a plausible slip: _finished is assigned on every call (= not data), so data
\* after the end of the stream takes the mark away
receive_reopens(d, data) ==
    LET finished == data = <<>>
        effective == IF data = <<>> THEN <<END>> ELSE data
        stripped == lstrip(d._recv_buffer \o effective, END)
        pieces == re_split(stripped)
        n == Len(pieces)
    IN  [d EXCEPT !._finished = finished,
                  !._recv_buffer = pieces[n],
                  !._packets = @ \o SubSeq(pieces, 1, n - 1)]

\* Driver.receive for a bytes argument: the Driver after the call
receive(d, data) ==
    LET finished == d._finished \/ data = <<>>
        effective == IF data = <<>> THEN <<END>> ELSE data
        stripped == lstrip(d._recv_buffer \o effective, END)
        pieces == re_split(stripped)
        n == Len(pieces)
    IN  [d EXCEPT !._finished = finished,
                  !._recv_buffer = pieces[n],
                  !._packets = @ \o SubSeq(pieces, 1, n - 1)]

\* a get that also wakes up once the end of the stream is marked
returns_when_finished(d, block, timeout) ==
    d._packets # <<>> \/ ~block \/ timeout # "None" \/ d._finished

\* a plausible slip: a lost wake-up, put does not notify a get that waits
\* without a timeout
returns_unless_waiting(d, block, timeout) ==
    ~block \/ timeout # "None"

\* Queue.get(block, timeout) on the packet queue returns or raises Empty in
\* finite time: with no packet queued, a call with block and without a
\* timeout waits until another thread puts one
returns(d, block, timeout) ==
    d._packets # <<>> \/ ~block \/ timeout # "None"

\* a plausible slip: a packet that fails to decode stays at the head of the queue
get_keep_failed(d) ==
    IF d._packets = <<>>
    THEN [driver |-> d, outcome |-> IF d._finished THEN Return(<<>>) ELSE None]
    ELSE [driver |-> IF is_valid(Head(d._packets))
                     THEN [d EXCEPT !._packets = Tail(@)]
                     ELSE d,
          outcome |-> decode(Head(d._packets))]

\* a plausible slip: the newest packet is taken, not the oldest
get_newest(d) ==
    IF d._packets = <<>>
    THEN [driver |-> d, outcome |-> IF d._finished THEN Return(<<>>) ELSE None]
    ELSE [driver |-> [d EXCEPT !._packets = SubSeq(@, 1, Len(@) - 1)],
          outcome |-> decode(d._packets[Len(d._packets)])]

\* a plausible slip: Empty always gives None, _finished is not looked at
get_none_when_empty(d) ==
    IF d._packets = <<>>
    THEN [driver |-> d, outcome |-> None]
    ELSE [driver |-> [d EXCEPT !._packets = Tail(@)],
          outcome |-> decode(Head(d._packets))]

\* a plausible slip: a packet that fails to decode takes the packets queued
\* behind it and the buffered bytes with it
get_reset_on_error(d) ==
    IF d._packets = <<>>
    THEN [driver |-> d, outcome |-> IF d._finished THEN Return(<<>>) ELSE None]
    ELSE [driver |-> IF is_valid(Head(d._packets))
                     THEN [d EXCEPT !._packets = Tail(@)]
                     ELSE [d EXCEPT !._packets = <<>>, !._recv_buffer = <<>>],
          outcome |-> decode(Head(d._packets))]

\* Driver.get when Queue.get returns or raises Empty: the Driver after the
\* call and the call's outcome
get(d) ==
    IF d._packets = <<>>
    THEN [driver |-> d, outcome |-> IF d._finished THEN Return(<<>>) ELSE None]
    ELSE [driver |-> [d EXCEPT !._packets = Tail(@)],
          outcome |-> decode(Head(d._packets))]

(***************************************************************************)
(* Calls on the receiving Driver, with the histories they extend           *)
(***************************************************************************)
RxReceive(data) ==
    /\ rx' = receive(rx, data)
    /\ received' = received \o (IF data = <<>> THEN <<END>> ELSE data)
    /\ queued' = queued \o SubSeq(rx'._packets, Len(rx._packets) + 1, Len(rx'._packets))
    /\ UNCHANGED outcomes

RxGet(block, timeout) ==
    /\ returns(rx, block, timeout)
    /\ rx' = get(rx).driver
    /\ outcomes' = IF rx._packets # <<>> THEN Append(outcomes, get(rx).outcome) ELSE outcomes
    /\ UNCHANGED <<received, queued>>

\* the waiting policies of Driver.get
Timeout == {"None", "finite"}

(***************************************************************************)
(* Spec: one Driver, constructed under the default configuration, fed any  *)
(* bytes in any chunks                                                     *)
(***************************************************************************)
CodecIdle == msg = <<>> /\ op = "idle" /\ out = None

\* the threads of the program
Threads == {"A", "B"}
NoThread == "none"

\* not inside a use_leading_end_byte body
Outside == [inside |-> FALSE, value |-> FALSE]

\* the module as imported: the lock is free, no thread is in use_leading_end_byte;
\* tx was constructed by the importing code under the default setting
ConfigIdle ==
    /\ lock = [owner |-> NoThread, count |-> 0]
    /\ pc = [t \in Threads |-> "run"]
    /\ scopes = [t \in Threads |-> <<>>]
    /\ born = [by |-> NoThread, setting |-> FALSE, own |-> Outside,
               other |-> Outside, base |-> FALSE]
    /\ event = [is_set |-> FALSE, entered |-> {}, waited |-> FALSE]

\* no SlipWrapper call was made yet; nothing iterates
WrapperIdle ==
    /\ stream = [handed |-> <<>>, eof |-> FALSE, failed |-> "none", failure |-> "none"]
    /\ call = [pc |-> "idle", data |-> <<>>]
    /\ returned = <<>>
    /\ iteration = [gen |-> "none", start |-> 0, calls |-> 0, yielded |-> <<>>]

\* no thread is inside a receive or a get
SpscIdle ==
    /\ producer = [pc |-> "idle", pending |-> <<>>]
    /\ consumer = [pc |-> "idle", block |-> FALSE, timeout |-> "None",
                   found_empty |-> FALSE, result |-> None]
    /\ receiving = [t \in Threads |->
                        [pc |-> "idle", arg |-> <<>>, data |-> <<>>, local |-> <<>>,
                         new_packets |-> <<>>, overlapped |-> FALSE]]

\* the module as imported, and two Drivers constructed right after
DriverIdle ==
    /\ USE_LEADING_END_BYTE = FALSE
    /\ tx = Driver_init(USE_LEADING_END_BYTE)
    /\ rx = Driver_init(USE_LEADING_END_BYTE)
    /\ wire = <<>>
    /\ sent = <<>>
    /\ received = <<>>
    /\ queued = <<>>
    /\ outcomes = <<>>

Init == DriverIdle /\ CodecIdle /\ ConfigIdle /\ WrapperIdle /\ SpscIdle

\* rx.receive(data) with non-empty bytes
Receive ==
    /\ \E data \in BSeq(WireByte, Min(MaxData, MaxRecv - Len(received))) \ {<<>>} :
           RxReceive(data)
    /\ UNCHANGED <<USE_LEADING_END_BYTE, linkVars, codecVars, cfgVars,
                   wrapVars, spscVars>>

\* rx.receive(n) with an integer, as when iterating over a bytes object
ReceiveInt ==
    /\ Len(received) < MaxRecv
    /\ \E n \in WireByte : RxReceive(int_to_bytes(n))
    /\ UNCHANGED <<USE_LEADING_END_BYTE, linkVars, codecVars, cfgVars,
                   wrapVars, spscVars>>

\* rx.receive(b"")
ReceiveEmpty ==
    /\ Len(received) < MaxRecv
    /\ RxReceive(<<>>)
    /\ UNCHANGED <<USE_LEADING_END_BYTE, linkVars, codecVars, cfgVars,
                   wrapVars, spscVars>>

\* rx.get(block=block, timeout=timeout)
Get ==
    /\ \E block \in BOOLEAN, timeout \in Timeout : RxGet(block, timeout)
    /\ UNCHANGED <<USE_LEADING_END_BYTE, linkVars, codecVars, cfgVars,
                   wrapVars, spscVars>>

Next == Receive \/ ReceiveInt \/ ReceiveEmpty \/ Get

Spec == Init /\ [][Next]_vars

(***************************************************************************)
(* SpecCodec: one call of a codec function on any argument, and decode     *)
(* applied to what encode returned                                         *)
(***************************************************************************)
InitCodec ==
    /\ DriverIdle
    /\ ConfigIdle
    /\ WrapperIdle
    /\ SpscIdle
    /\ msg \in BSeq(Byte, MaxLen)
    /\ op = "idle"
    /\ out = None

\* out = encode(msg)
CallEncode ==
    /\ op = "idle"
    /\ op' = "encode"
    /\ out' = Return(encode(msg))
    /\ UNCHANGED <<msg, USE_LEADING_END_BYTE, linkVars, rxVars, cfgVars,
                   wrapVars, spscVars>>

\* out = decode(msg)
CallDecode ==
    /\ op = "idle"
    /\ op' = "decode"
    /\ out' = decode(msg)
    /\ UNCHANGED <<msg, USE_LEADING_END_BYTE, linkVars, rxVars, cfgVars,
                   wrapVars, spscVars>>

\* out = is_valid(msg)
CallIsValid ==
    /\ op = "idle"
    /\ op' = "is_valid"
    /\ out' = Return(is_valid(msg))
    /\ UNCHANGED <<msg, USE_LEADING_END_BYTE, linkVars, rxVars, cfgVars,
                   wrapVars, spscVars>>

\* out = decode(encode(msg)), once encode(msg) has returned
CallDecodeOfEncoded ==
    /\ op = "encode"
    /\ op' = "decode(encode)"
    /\ out' = decode(out.val)
    /\ UNCHANGED <<msg, USE_LEADING_END_BYTE, linkVars, rxVars, cfgVars,
                   wrapVars, spscVars>>

\* out = is_valid(encode(msg)), once encode(msg) has returned
CallIsValidOfEncoded ==
    /\ op = "encode"
    /\ op' = "is_valid(encode)"
    /\ out' = Return(is_valid(out.val))
    /\ UNCHANGED <<msg, USE_LEADING_END_BYTE, linkVars, rxVars, cfgVars,
                   wrapVars, spscVars>>

NextCodec ==
    \/ CallEncode
    \/ CallDecode
    \/ CallIsValid
    \/ CallDecodeOfEncoded
    \/ CallIsValidOfEncoded

SpecCodec == InitCodec /\ [][NextCodec]_vars

(***************************************************************************)
(* Reference readings of a packet and a message, one byte at a time        *)
(***************************************************************************)
IsSpecial(b) == b \in {END, ESC}

\* the number of END and ESC bytes of m
RECURSIVE CountSpecial(_)
CountSpecial(m) ==
    IF m = <<>> THEN 0
    ELSE (IF IsSpecial(Head(m)) THEN 1 ELSE 0) + CountSpecial(Tail(m))

\* m with each ESC written ESC,ESC_ESC and each END written ESC,ESC_END
RECURSIVE EscapeEach(_)
EscapeEach(m) ==
    IF m = <<>> THEN <<>>
    ELSE (CASE Head(m) = ESC -> <<ESC, ESC_ESC>>
            [] Head(m) = END -> <<ESC, ESC_END>>
            [] OTHER -> <<Head(m)>>) \o EscapeEach(Tail(m))

\* a packet read left to right, an ESC opening a pair with the byte after it:
\* no END, no ESC without a second byte, no pair ending in another byte
RECURSIVE WellFormed(_)
WellFormed(p) ==
    IF p = <<>> THEN TRUE
    ELSE IF Head(p) = END THEN FALSE
    ELSE IF Head(p) = ESC
         THEN /\ Len(p) >= 2
              /\ p[2] \in {ESC_END, ESC_ESC}
              /\ WellFormed(SubSeq(p, 3, Len(p)))
         ELSE WellFormed(Tail(p))

\* a well-formed packet with each pair ESC,ESC_END read as END and each pair
\* ESC,ESC_ESC read as ESC
RECURSIVE UnescapePairs(_)
UnescapePairs(p) ==
    IF p = <<>> THEN <<>>
    ELSE IF Head(p) = ESC /\ Len(p) >= 2 /\ p[2] = ESC_END
         THEN <<END>> \o UnescapePairs(SubSeq(p, 3, Len(p)))
    ELSE IF Head(p) = ESC /\ Len(p) >= 2 /\ p[2] = ESC_ESC
         THEN <<ESC>> \o UnescapePairs(SubSeq(p, 3, Len(p)))
    ELSE <<Head(p)>> \o UnescapePairs(Tail(p))

AllSpecial(m) == \A i \in 1..Len(m) : m[i] \in {END, ESC, ESC_END, ESC_ESC}

(***************************************************************************)
(* Claims about the codec (checked under SpecCodec)                        *)
(***************************************************************************)
\* C1: for every message msg, decode(encode(msg)) returns exactly msg and
\* raises no ProtocolError.
C1_RoundTrip ==
    op = "decode(encode)" => out.kind = "return" /\ out.val = msg

\* the round trip of a message of the longest length made of special bytes
\* only, an ESC followed by ESC_END among them
C1_Witness ==
    /\ op = "decode(encode)"
    /\ Len(msg) = MaxLen
    /\ AllSpecial(msg)
    /\ \E i \in 1..(Len(msg) - 1) : msg[i] = ESC /\ msg[i + 1] = ESC_END
    /\ contains(msg, END)

\* C8: decode(msg) raises ProtocolError iff is_valid(msg) is false, the
\* error's args are exactly (msg,), and for a valid msg it returns msg with
\* every pair ESC,ESC_END replaced by END, every pair ESC,ESC_ESC replaced by
\* ESC and every other byte unchanged.
C8_DecodeContract ==
    op = "decode" =>
        /\ out.kind \in {"return", "ProtocolError"}
        /\ (out.kind = "ProtocolError") <=> ~is_valid(msg)
        /\ out.kind = "ProtocolError" => out.val = <<msg>>
        /\ out.kind = "return" => out.val = UnescapePairs(msg)

\* decode has raised for an invalid packet
C8_Witness ==
    /\ op = "decode"
    /\ out.kind = "ProtocolError"
    /\ msg = <<NUL, ESC, NUL>>

\* C9: is_valid(msg) is false iff msg holds an END byte, or ends in an ESC
\* that opens a pair, or holds an ESC followed by a byte other than ESC_END
\* and ESC_ESC; it is true of every other packet, the empty one included.
C9_IsValidContract ==
    op = "is_valid" =>
        /\ out.val = WellFormed(msg)
        /\ out.val = ~(\/ contains(msg, END)
                       \/ endswith(msg, ESC)
                       \/ \E i \in 1..(Len(msg) - 1) :
                              msg[i] = ESC /\ msg[i + 1] # ESC_END /\ msg[i + 1] # ESC_ESC)

\* is_valid has returned False for a packet whose only flaw is its last ESC
C9_Witness ==
    /\ op = "is_valid"
    /\ out.val = FALSE
    /\ msg = <<ESC, ESC_ESC, ESC>>

\* C10: encode(msg) never fails and is the concatenation, byte by byte, of
\* ESC,ESC_ESC for an ESC, ESC,ESC_END for an END and the byte itself
\* otherwise; its length is Len(msg) plus the number of END and ESC bytes.
C10_EncodeContract ==
    op = "encode" =>
        /\ out.kind = "return"
        /\ out.val = EscapeEach(msg)
        /\ Len(out.val) = Len(msg) + CountSpecial(msg)

\* encode has returned for a message with an END, an ESC and an ESC_END
C10_Witness ==
    /\ op = "encode"
    /\ msg = <<END, ESC_END, ESC>>
    /\ out.val = <<ESC, ESC_END, ESC_END, ESC, ESC_ESC>>

\* C11: for every message msg, is_valid(encode(msg)) is true: what encode
\* returns holds no END byte, does not end in an ESC that opens a pair, and
\* each ESC in it is followed by ESC_END or ESC_ESC.
C11_EncodedIsValid ==
    /\ op = "is_valid(encode)" => out = Return(TRUE)
    /\ op = "encode" =>
           /\ \A i \in 1..Len(out.val) : out.val[i] # END
           /\ \A i \in 1..Len(out.val) :
                  out.val[i] = ESC =>
                      i < Len(out.val) /\ out.val[i + 1] \in {ESC_END, ESC_ESC}
           /\ WellFormed(out.val)

\* is_valid has returned for the encoding of a message that ends in an ESC
\* and holds an END
C11_Witness ==
    /\ op = "is_valid(encode)"
    /\ msg = <<END, ESC_ESC, ESC>>
    /\ out = Return(TRUE)

\* the END bytes of m replaced first, the ESC bytes of the result second
EndThenEsc(m) ==
    replace(replace(m, <<END>>, <<ESC, ESC_END>>), <<ESC>>, <<ESC, ESC_ESC>>)

\* the number of END bytes of m
RECURSIVE CountEnd(_)
CountEnd(m) ==
    IF m = <<>> THEN 0
    ELSE (IF Head(m) = END THEN 1 ELSE 0) + CountEnd(Tail(m))

\* C27 as claimed: for every message, replacing END first and ESC second
\* gives the packet encode returns.
C27_AsClaimed == op = "encode" => EndThenEsc(msg) = out.val

\* C27: replacing END first and ESC second gives the packet encode returns
\* exactly for the messages without an END byte; for each END of the message
\* the ESC that its replacement brought in is escaped once more, which makes
\* the result one byte longer per END.
C27_SubstitutionOrder ==
    op = "encode" =>
        /\ EndThenEsc(msg) = out.val <=> ~contains(msg, END)
        /\ Len(EndThenEsc(msg)) = Len(out.val) + CountEnd(msg)

\* encode has returned ESC ESC_END for the message END; END first and ESC
\* second gives ESC ESC_ESC ESC_END, the encoding of ESC ESC_END
C27_Witness ==
    /\ op = "encode"
    /\ msg = <<END>>
    /\ out = Return(<<ESC, ESC_END>>)
    /\ EndThenEsc(msg) = <<ESC, ESC_ESC, ESC_END>>

(***************************************************************************)
(* Reference readings of a received byte stream, one byte at a time        *)
(***************************************************************************)
\* the stream read byte by byte: cur collects the bytes since the last END,
\* an END closes cur as a frame unless cur is empty
RECURSIVE ReadStream(_, _, _)
ReadStream(s, cur, frames) ==
    IF s = <<>> THEN [frames |-> frames, partial |-> cur]
    ELSE IF Head(s) = END
         THEN ReadStream(Tail(s), <<>>, IF cur = <<>> THEN frames ELSE Append(frames, cur))
         ELSE ReadStream(Tail(s), Append(cur, Head(s)), frames)

\* the maximal END-free non-empty runs of s that an END follows
FramesOf(s) == ReadStream(s, <<>>, <<>>).frames

\* s without its byte at index i
RemoveAt(s, i) == SubSeq(s, 1, i - 1) \o SubSeq(s, i + 1, Len(s))

\* s with every run of END bytes replaced by one END
RECURSIVE Collapse(_)
Collapse(s) ==
    IF Len(s) < 2 THEN s
    ELSE IF s[1] = END /\ s[2] = END THEN Collapse(Tail(s))
    ELSE <<Head(s)>> \o Collapse(Tail(s))

\* a fresh Driver after the single call receive(s), or after no call when s
\* is empty (an empty argument would mark the end of the stream)
ReceivedAtOnce(s) ==
    IF s = <<>> THEN Driver_init(FALSE) ELSE receive(Driver_init(FALSE), s)

(***************************************************************************)
(* Claims about one Driver (checked under Spec)                            *)
(***************************************************************************)
\* C2: the i-th get that takes a packet yields the outcome of decoding the
\* i-th frame of the bytes received: the message of a valid frame, a
\* ProtocolError carrying an invalid one; the frames not yet taken are all
\* still queued, so no valid frame is lost and an invalid frame fails one get
\* only.
C2_FrameIsolation ==
    LET frames == FramesOf(received)
        n == Len(outcomes)
    IN  /\ n <= Len(frames)
        /\ \A i \in 1..n :
               /\ is_valid(frames[i]) => outcomes[i] = Return(UnescapePairs(frames[i]))
               /\ ~is_valid(frames[i]) => outcomes[i] = ProtocolError(frames[i])
        /\ rx._packets = SubSeq(frames, n + 1, Len(frames))

\* three gets have yielded a message, a ProtocolError and a message
C2_Witness ==
    /\ Len(outcomes) = 3
    /\ outcomes[1].kind = "return"
    /\ outcomes[2].kind = "ProtocolError"
    /\ outcomes[3].kind = "return"
    /\ rx._packets = <<>>

\* C3: the outcomes of get, followed by the packets still queued, are the
\* packets put on the queue by receive, in the order they were put: none is
\* delivered twice, skipped or reordered.
C3_Ordering ==
    LET n == Len(outcomes)
    IN  /\ Len(queued) = n + Len(rx._packets)
        /\ \A i \in 1..n : outcomes[i] = decode(queued[i])
        /\ \A j \in 1..Len(rx._packets) : rx._packets[j] = queued[n + j]

\* three distinct packets, put by several receive calls, the first of them
\* invalid: two are taken, one is still queued
C3_Witness ==
    /\ Len(queued) = 3
    /\ Len(received) > MaxData
    /\ queued[1] # queued[2] /\ queued[2] # queued[3] /\ queued[1] # queued[3]
    /\ Len(outcomes) = 2
    /\ outcomes[1].kind = "ProtocolError"
    /\ outcomes[2].kind = "return"
    /\ Len(rx._packets) = 1

\* C4: before any empty receive, the packets queued and the receive buffer
\* are those a fresh Driver has after one receive of all the bytes received,
\* however the bytes were cut into calls; while the bytes received hold no
\* frame with its terminating END, nothing is queued and get(block=False)
\* returns None, and once they do, the first get yields the first frame.
C4_Fragmentation ==
    ~rx._finished =>
        /\ queued = ReceivedAtOnce(received)._packets
        /\ rx._recv_buffer = ReceivedAtOnce(received)._recv_buffer
        /\ FramesOf(received) = <<>> =>
               /\ rx._packets = <<>>
               /\ returns(rx, FALSE, "None")
               /\ get(rx).outcome = None
        /\ FramesOf(received) # <<>> /\ outcomes = <<>> =>
               get(rx).outcome = decode(FramesOf(received)[1])

\* a frame too long for one receive call together with its END has been
\* delivered
C4_Witness ==
    /\ ~rx._finished
    /\ Len(queued) = 1
    /\ Len(queued[1]) >= MaxData
    /\ outcomes = <<Return(queued[1])>>
    /\ rx._recv_buffer # <<>>

\* C5: receive(b"") appends the receive buffer, if it is not empty, to the
\* queue as one last packet, which the next get on an otherwise empty queue
\* decodes or rejects; it leaves the buffer empty and marks the end; the mark
\* stays, and with it a get on an empty queue returns b"", not None.
C5_EndOfStream ==
    [][/\ ReceiveEmpty =>
           /\ rx'._finished
           /\ rx'._recv_buffer = <<>>
           /\ rx'._packets = IF rx._recv_buffer = <<>> THEN rx._packets
                             ELSE Append(rx._packets, rx._recv_buffer)
           /\ (rx._packets = <<>> /\ rx._recv_buffer # <<>>) =>
                  LET after == rx' IN get(after).outcome = decode(rx._recv_buffer)
       /\ rx._finished =>
           /\ rx'._finished
           /\ LET after == rx'
              IN  after._packets = <<>> => get(after).outcome = Return(<<>>)
      ]_vars

\* the end was marked while an invalid partial frame was buffered: the frame
\* was queued, a get has rejected it, and the next get returns b""
C5_Witness ==
    /\ rx._finished
    /\ received = <<NUL, ESC, END>>
    /\ queued = <<SubSeq(received, 1, 2)>>
    /\ outcomes = <<ProtocolError(queued[1])>>
    /\ rx._recv_buffer = <<>>
    /\ get(rx).outcome = Return(<<>>)

\* C6: the packets queued and the receive buffer are those a fresh Driver has
\* after one receive (none, if no byte is left) of the bytes received with every run of END bytes
\* replaced by one END, and with any one END of a run taken out; no packet
\* ever queued is empty.
C6_DelimiterTolerance ==
    /\ \A i \in 1..Len(queued) : queued[i] # <<>>
    /\ queued = ReceivedAtOnce(Collapse(received))._packets
    /\ rx._recv_buffer = ReceivedAtOnce(Collapse(received))._recv_buffer
    /\ \A i \in 1..(Len(received) - 1) :
           received[i] = END /\ received[i + 1] = END =>
               /\ queued = ReceivedAtOnce(RemoveAt(received, i))._packets
               /\ rx._recv_buffer = ReceivedAtOnce(RemoveAt(received, i))._recv_buffer

\* a leading END, two frames with a run of two END bytes between them, and a
\* trailing END
C6_Witness ==
    /\ Len(received) = 6
    /\ received[1] = END /\ received[2] # END
    /\ received[3] = END /\ received[4] = END
    /\ received[5] # END /\ received[6] = END
    /\ Len(queued) = 2
    /\ rx._recv_buffer = <<>>

\* the waiting policies of get that end in finite time whatever the queue
\* holds: block=False, or block=True with a timeout
Bounded == {p \in BOOLEAN \X Timeout : ~p[1] \/ p[2] # "None"}

\* C12: with no packet queued, a get with block=False, or with block=True
\* and a timeout, returns: None when the end of the stream is not marked,
\* b"" when it is; the Driver is the same after the call.
C12_EmptyQueueGet ==
    rx._packets = <<>> =>
        \A p \in Bounded :
            /\ returns(rx, p[1], p[2])
            /\ get(rx).outcome = (IF rx._finished THEN Return(<<>>) ELSE None)
            /\ get(rx).driver = rx

\* the queue is empty again after a get took its only packet, the end of the
\* stream is marked: the next get returns b""
C12_Witness ==
    /\ rx._packets = <<>>
    /\ rx._finished
    /\ Len(outcomes) = 1
    /\ get(rx).outcome = Return(<<>>)

\* C13 as claimed: once the end of the stream is marked and no packet is
\* queued, get returns b"" under every waiting policy, block=True without a
\* timeout included.
C13_AsClaimed ==
    rx._finished /\ rx._packets = <<>> =>
        \A block \in BOOLEAN, timeout \in Timeout :
            /\ returns(rx, block, timeout)
            /\ get(rx).outcome = Return(<<>>)

\* C13: once the end of the stream is marked and no packet is queued, a get
\* with block=False, or with block=True and a timeout, returns b""; a get
\* with block=True and no timeout does not return while the queue is empty,
\* end of stream or not: Queue.get raises Empty under a bounded policy only.
C13_EndOfStreamGet ==
    /\ rx._finished /\ rx._packets = <<>> =>
           \A p \in Bounded :
               returns(rx, p[1], p[2]) /\ get(rx).outcome = Return(<<>>)
    /\ returns(rx, TRUE, "None") <=> rx._packets # <<>>

\* receive(b"") has marked the end of the stream over an empty buffer: no
\* packet was ever queued, so nothing wakes a get that waits without timeout
C13_Witness ==
    /\ rx._finished
    /\ received = <<END>>
    /\ queued = <<>>
    /\ ~returns(rx, TRUE, "None")

\* C14: receive queues every frame of the bytes received, the invalid ones
\* too, without looking at their escapes; a ProtocolError is the outcome of
\* the get that takes an invalid packet, one per invalid packet taken, and it
\* carries that packet.
C14_ErrorsOnlyFromGet ==
    /\ queued = FramesOf(received)
    /\ Len(outcomes) <= Len(queued)
    /\ \A i \in 1..Len(outcomes) :
           /\ outcomes[i].kind = "ProtocolError" <=> ~WellFormed(queued[i])
           /\ outcomes[i].kind = "ProtocolError" => outcomes[i].val = <<queued[i]>>

\* two receive calls have queued a valid and an invalid packet; one get has
\* returned a message, the invalid packet is still queued, no error so far
C14_Witness ==
    /\ Len(received) > MaxData
    /\ Len(queued) = 2
    /\ ~WellFormed(queued[2])
    /\ Len(outcomes) = 1
    /\ outcomes[1].kind = "return"
    /\ rx._packets = <<queued[2]>>

\* the longest suffix of s without an END byte
RECURSIVE EndFreeSuffix(_)
EndFreeSuffix(s) ==
    IF s = <<>> \/ s[Len(s)] = END THEN <<>>
    ELSE Append(EndFreeSuffix(SubSeq(s, 1, Len(s) - 1)), s[Len(s)])

\* C29: one receive(data) with non-empty data, t being the old buffer
\* followed by data: the queue is the old queue followed by the maximal
\* non-empty END-free runs of t that an END follows, left to right; the new
\* buffer is the longest END-free suffix of t.
C29_ReceiveStep ==
    [][Receive \/ ReceiveInt =>
           LET data == SubSeq(received', Len(received) + 1, Len(received'))
               t == rx._recv_buffer \o data
           IN  /\ data # <<>>
               /\ rx'._packets = rx._packets \o FramesOf(t)
               /\ rx'._recv_buffer = EndFreeSuffix(t)
               /\ rx'._finished = rx._finished
               /\ rx'._prefix = rx._prefix]_vars

\* two frames are queued and none taken; the second one and its END are too
\* long for one receive call, so it was closed over buffered bytes; the bytes
\* after its END are buffered
C29_Witness ==
    /\ Len(queued) = 2
    /\ rx._packets = queued
    /\ Len(queued[2]) >= MaxData
    /\ rx._recv_buffer # <<>>

\* C30: a get whose outcome is a ProtocolError takes the head packet from
\* the queue and changes nothing else: the packets behind it and their
\* order, the receive buffer, the end-of-stream mark and the prefix stay.
C30_ErrorConsumesHead ==
    [][(Get /\ rx._packets # <<>> /\ ~WellFormed(Head(rx._packets))) =>
           /\ Len(outcomes') = Len(outcomes) + 1
           /\ outcomes'[Len(outcomes')].kind = "ProtocolError"
           /\ rx'._packets = Tail(rx._packets)
           /\ rx'._recv_buffer = rx._recv_buffer
           /\ rx'._finished = rx._finished
           /\ rx'._prefix = rx._prefix
           /\ received' = received
           /\ queued' = queued]_vars

\* a get has raised ProtocolError for the first packet; the packet queued
\* behind it and the buffered bytes are still there
C30_Witness ==
    /\ Len(outcomes) = 1
    /\ outcomes[1].kind = "ProtocolError"
    /\ Len(queued) = 2
    /\ rx._packets = <<queued[2]>>
    /\ rx._recv_buffer # <<>>

(***************************************************************************)
(* SpecLink: a sending and a receiving Driver, each constructed under      *)
(* either value of the setting before any traffic; the bytes the sender's  *)
(* send returns travel over the wire and reach the receiver's receive in   *)
(* chunks of any size up to MaxData                                        *)
(***************************************************************************)
InitLink == DriverIdle /\ CodecIdle /\ ConfigIdle /\ WrapperIdle /\ SpscIdle

\* config.USE_LEADING_END_BYTE = value
SetUseLeadingEndByte ==
    /\ \E value \in BOOLEAN : USE_LEADING_END_BYTE' = value
    /\ UNCHANGED <<linkVars, rxVars, codecVars, cfgVars,
                   wrapVars, spscVars>>

\* tx = Driver(), before the connection carries data
ConstructSender ==
    /\ sent = <<>>
    /\ tx' = Driver_init(USE_LEADING_END_BYTE)
    /\ UNCHANGED <<USE_LEADING_END_BYTE, wire, sent, rxVars, codecVars, cfgVars,
                   wrapVars, spscVars>>

\* rx = Driver(), before the connection carries data
ConstructReceiver ==
    /\ sent = <<>>
    /\ rx' = Driver_init(USE_LEADING_END_BYTE)
    /\ UNCHANGED <<USE_LEADING_END_BYTE, linkVars, received, queued, outcomes, codecVars, cfgVars,
                   wrapVars, spscVars>>

\* the number of bytes written to the wire so far
Written == Len(received) + Len(wire)

\* a plausible slip: the message itself is handed over, closed by an END
send_msg_unencoded(d, message) == message \o <<END>>

\* SlipWrapper.send_msg of the wrapper whose Driver is d: the packet it
\* passes to send_bytes
send_msg(d, message) == send(d, message)

\* send_msg(message) on the sending side: the packet is handed to send_bytes,
\* which writes it to the wire
SendMsg ==
    /\ Written < MaxWire
    /\ \E message \in BSeq(MsgByte, MaxWire - Written - 1) :
           /\ Written + Len(send_msg(tx, message)) <= MaxWire
           /\ wire' = wire \o send_msg(tx, message)
           /\ stream' = [stream EXCEPT !.handed = Append(@, send_msg(tx, message))]
           /\ sent' = Append(sent, message)
    /\ UNCHANGED <<USE_LEADING_END_BYTE, tx, rxVars, codecVars, cfgVars,
                   call, returned, iteration, spscVars>>

\* rx.receive(data) with the next bytes of the wire
Deliver ==
    /\ \E k \in 1..Min(MaxData, Len(wire)) :
           /\ RxReceive(SubSeq(wire, 1, k))
           /\ wire' = SubSeq(wire, k + 1, Len(wire))
    /\ UNCHANGED <<USE_LEADING_END_BYTE, tx, sent, codecVars, cfgVars,
                   wrapVars, spscVars>>

NextLink ==
    \/ SetUseLeadingEndByte
    \/ ConstructSender
    \/ ConstructReceiver
    \/ SendMsg
    \/ Deliver
    \/ Get

SpecLink == InitLink /\ [][NextLink]_vars

(***************************************************************************)
(* Claims about a sender and a receiver (checked under SpecLink)           *)
(***************************************************************************)
\* C7: when every message sent is non-empty, the packets the receiver queues
\* decode to the messages sent, in order, so that its gets return m1, m2, ..;
\* once the wire is empty the receiver has queued one packet per message and
\* buffers nothing, whatever prefix the sender and the receiver captured.
C7_Interoperability ==
    (\A i \in 1..Len(sent) : sent[i] # <<>>) =>
        /\ Len(queued) <= Len(sent)
        /\ \A i \in 1..Len(queued) : decode(queued[i]) = Return(sent[i])
        /\ Len(outcomes) <= Len(queued)
        /\ \A i \in 1..Len(outcomes) : outcomes[i] = Return(sent[i])
        /\ wire = <<>> =>
               /\ rx._recv_buffer = <<>>
               /\ Len(queued) = Len(sent)
               /\ Len(outcomes) + Len(rx._packets) = Len(sent)

\* a sender with the leading END and a receiver without: two messages, the
\* first of them an END byte, have crossed the wire in several receive calls
\* and have been returned by two gets
C7_Witness ==
    /\ tx._prefix = <<END>>
    /\ rx._prefix = <<>>
    /\ Len(sent) = 2
    /\ sent[1] = <<END>>
    /\ sent[2] # <<>>
    /\ wire = <<>>
    /\ Len(received) > MaxData
    /\ outcomes = <<Return(sent[1]), Return(sent[2])>>

\* the sequences of s joined in order
RECURSIVE Concat(_)
Concat(s) == IF s = <<>> THEN <<>> ELSE Head(s) \o Concat(Tail(s))

\* C21: every send_msg(m) hands one packet to send_bytes, the frame of m:
\* its escaped bytes closed by an END, after the prefix of the Driver; so
\* the bytes handed to the transport, those read from the wire followed by
\* those still on it, are the frames of the messages joined in call order.
C21_OneFramePerSend ==
    /\ Len(stream.handed) = Len(sent)
    /\ \A i \in 1..Len(sent) :
           stream.handed[i] = tx._prefix \o EscapeEach(sent[i]) \o <<END>>
    /\ received \o wire =
           Concat([i \in 1..Len(sent) |-> tx._prefix \o EscapeEach(sent[i]) \o <<END>>])

\* three send_msg calls, one of them with a message that is escaped, have
\* handed three packets over; part of their bytes is still on the wire
C21_Witness ==
    /\ Len(sent) = 3
    /\ Len(stream.handed) = 3
    /\ \E i \in 1..3 : Len(stream.handed[i]) > Len(sent[i]) + 1
    /\ wire # <<>>
    /\ received # <<>>

(***************************************************************************)
(* SpecConfig: the global setting under threads.  Each thread runs its own *)
(* code: it assigns config.USE_LEADING_END_BYTE, enters and leaves         *)
(* use_leading_end_byte scopes (nested up to MaxDepth), constructs a       *)
(* Driver and calls its send.  One step is one statement of                *)
(* use_leading_end_byte, so that the reads of other threads fall between   *)
(* them.  Following the docstring of use_leading_end_byte, a body holds    *)
(* constructions and further scopes, no direct assignment of the setting.  *)
(***************************************************************************)
\* deepest nesting of use_leading_end_byte scopes in one thread
MaxDepth == 2

\* the messages passed to send: an ordinary byte, and a byte that is escaped
SendMsgs == {<<NUL>>, <<END>>}

\* Driver.sends_leading_end_byte
sends_leading_end_byte(d) == d._prefix = <<END>>

\* a plausible slip: the scope is entered without the lock being held
can_acquire_unguarded(l, t) == TRUE

\* RLock.acquire returns for thread t: the lock is free, or t owns it
can_acquire(l, t) == l.owner \in {NoThread, t}

\* RLock.acquire by thread t
acquire(l, t) == [owner |-> t, count |-> l.count + 1]

\* a lock that forgets how often its owner took it: one release frees it
release_at_once(l) == [owner |-> NoThread, count |-> 0]

\* RLock.release by its owner
release(l) ==
    IF l.count = 1
    THEN [owner |-> NoThread, count |-> 0]
    ELSE [l EXCEPT !.count = @ - 1]

\* an assignment that does not take the lock
setter_unlocked(l, t) == TRUE

\* the setter of USE_LEADING_END_BYTE proceeds for thread t: it holds the
\* lock around the assignment
setter_proceeds(l, t) == can_acquire(l, t)

\* a plausible slip: no try/finally, the restore is skipped when the body raises
restored_unless_raised(frame) ==
    IF frame.raised THEN frame.value ELSE frame.current_value

\* the value the finally clause of use_leading_end_byte assigns
restored(frame) == frame.current_value

\* the frame of the innermost use_leading_end_byte call of thread t
Top(t) == scopes[t][Len(scopes[t])]

\* the frames of thread t that have passed the with statement of the lock
AcquiredDepth(t) == IF pc[t] = "acquire" THEN Len(scopes[t]) - 1 ELSE Len(scopes[t])

\* thread t executes the body of its innermost scope
InBody(t) == pc[t] = "run" /\ scopes[t] # <<>>

\* the index of the innermost frame of t whose value is installed, 0 if none
RECURSIVE InstalledDepth(_, _)
InstalledDepth(t, k) ==
    IF k = 0 THEN 0
    ELSE IF scopes[t][k].installed THEN k
    ELSE InstalledDepth(t, k - 1)

\* the override thread t is under: the value of its innermost installed scope
Override(t) ==
    LET k == InstalledDepth(t, Len(scopes[t]))
    IN  IF k = 0 THEN Outside ELSE [inside |-> TRUE, value |-> scopes[t][k].value]

\* the override a thread other than t is under, Outside if there is none
OverrideOfOther(t) ==
    IF \E u \in Threads \ {t} : Override(u).inside
    THEN Override(CHOOSE u \in Threads \ {t} : Override(u).inside)
    ELSE Outside

\* the setting with every override taken away: what it was when the outermost
\* open scope was entered, the setting itself when no scope is open
Unoverridden ==
    IF \E u \in Threads : AcquiredDepth(u) > 0
    THEN scopes[CHOOSE u \in Threads : AcquiredDepth(u) > 0][1].entry
    ELSE USE_LEADING_END_BYTE

InitConfig == DriverIdle /\ CodecIdle /\ ConfigIdle /\ WrapperIdle /\ SpscIdle

\* the frame of a use_leading_end_byte(value) call; accept tells a call made
\* by SlipSocket.accept, listener is then the Driver of the listening socket
Frame(value, accept, listener) ==
    [value |-> value, current_value |-> FALSE, entry |-> FALSE,
     installed |-> FALSE, raised |-> FALSE, accept |-> accept,
     listener |-> listener]

\* thread t calls use_leading_end_byte(value) and reaches the with statement
Call(t) ==
    /\ pc[t] = "run"
    /\ Len(scopes[t]) < MaxDepth
    /\ \E value \in BOOLEAN :
           scopes' = [scopes EXCEPT ![t] =
                         Append(@, Frame(value, FALSE, Driver_init(FALSE)))]
    /\ pc' = [pc EXCEPT ![t] = "acquire"]
    /\ UNCHANGED <<USE_LEADING_END_BYTE, lock, born, event, linkVars, rxVars, codecVars,
                   wrapVars, spscVars>>

\* with self._use_leading_end_byte_lock: thread t gets the lock
Acquire(t) ==
    /\ pc[t] = "acquire"
    /\ can_acquire(lock, t)
    /\ lock' = acquire(lock, t)
    /\ scopes' = [scopes EXCEPT ![t][Len(scopes[t])].entry = USE_LEADING_END_BYTE]
    /\ pc' = [pc EXCEPT ![t] = "save"]
    /\ UNCHANGED <<USE_LEADING_END_BYTE, born, linkVars, rxVars, codecVars,
                   wrapVars, spscVars>>

\* current_value = self.USE_LEADING_END_BYTE
Save(t) ==
    /\ pc[t] = "save"
    /\ scopes' = [scopes EXCEPT ![t][Len(scopes[t])].current_value = USE_LEADING_END_BYTE]
    /\ pc' = [pc EXCEPT ![t] = "install"]
    /\ UNCHANGED <<USE_LEADING_END_BYTE, lock, born, event, linkVars, rxVars, codecVars,
                   wrapVars, spscVars>>

\* self.USE_LEADING_END_BYTE = value, then yield: the body starts
Install(t) ==
    /\ pc[t] = "install"
    /\ setter_proceeds(lock, t)
    /\ USE_LEADING_END_BYTE' = Top(t).value
    /\ scopes' = [scopes EXCEPT ![t][Len(scopes[t])].installed = TRUE]
    /\ pc' = [pc EXCEPT ![t] = IF Top(t).accept THEN "construct" ELSE "run"]
    /\ UNCHANGED <<lock, born, event, linkVars, rxVars, codecVars,
                   wrapVars, spscVars>>

\* the body of the innermost scope of thread t ends, or raises
ExitBody(t) ==
    /\ InBody(t)
    /\ \E raised \in BOOLEAN :
           scopes' = [scopes EXCEPT ![t][Len(scopes[t])].raised = raised]
    /\ pc' = [pc EXCEPT ![t] = "restore"]
    /\ UNCHANGED <<USE_LEADING_END_BYTE, lock, born, event, linkVars, rxVars, codecVars,
                   wrapVars, spscVars>>

\* finally: self.USE_LEADING_END_BYTE = current_value
Restore(t) ==
    /\ pc[t] = "restore"
    /\ setter_proceeds(lock, t)
    /\ USE_LEADING_END_BYTE' = restored(Top(t))
    /\ scopes' = [scopes EXCEPT ![t][Len(scopes[t])].installed = FALSE]
    /\ pc' = [pc EXCEPT ![t] = "release"]
    /\ UNCHANGED <<lock, born, event, linkVars, rxVars, codecVars,
                   wrapVars, spscVars>>

\* the with statement of the lock ends; use_leading_end_byte is left
Release(t) ==
    /\ pc[t] = "release"
    /\ lock' = release(lock)
    /\ scopes' = [scopes EXCEPT ![t] = SubSeq(@, 1, Len(@) - 1)]
    /\ pc' = [pc EXCEPT ![t] = "run"]
    /\ UNCHANGED <<USE_LEADING_END_BYTE, born, event, linkVars, rxVars, codecVars,
                   wrapVars, spscVars>>

\* config.USE_LEADING_END_BYTE = value by thread t, outside every scope of its own
Assign(t) ==
    /\ pc[t] = "run"
    /\ scopes[t] = <<>>
    /\ setter_proceeds(lock, t)
    /\ \E value \in BOOLEAN : USE_LEADING_END_BYTE' = value
    /\ UNCHANGED <<cfgVars, linkVars, rxVars, codecVars,
                   wrapVars, spscVars>>

\* tx = Driver() by thread t; the new Driver has not been called yet
Construct(t) ==
    /\ pc[t] = "run"
    /\ tx' = Driver_init(USE_LEADING_END_BYTE)
    /\ born' = [by |-> t, setting |-> USE_LEADING_END_BYTE, own |-> Override(t),
                other |-> OverrideOfOther(t), base |-> Unoverridden]
    /\ msg' = <<>>
    /\ op' = "idle"
    /\ out' = None
    /\ UNCHANGED <<USE_LEADING_END_BYTE, lock, pc, scopes, event, wire, sent, rxVars,
                   wrapVars, spscVars>>

\* a plausible slip: accept constructs under the setting of the moment
accept_value_current_setting(d) == USE_LEADING_END_BYTE

\* the value SlipSocket.accept passes to use_leading_end_byte
accept_value(d) == sends_leading_end_byte(d)

\* thread t calls accept on the listening SlipSocket, whose Driver is tx: the
\* connection is accepted and the with statement reached
AcceptCall(t) ==
    /\ pc[t] = "run"
    /\ Len(scopes[t]) < MaxDepth
    /\ scopes' = [scopes EXCEPT ![t] = Append(@, Frame(accept_value(tx), TRUE, tx))]
    /\ pc' = [pc EXCEPT ![t] = "acquire"]
    /\ UNCHANGED <<USE_LEADING_END_BYTE, lock, born, event, linkVars, rxVars, codecVars,
                   wrapVars, spscVars>>

\* accept_socket = self.__class__(conn): the body of the scope in accept; rx
\* is the Driver of the accepted SlipSocket
AcceptConstruct(t) ==
    /\ pc[t] = "construct"
    /\ rx' = Driver_init(USE_LEADING_END_BYTE)
    /\ pc' = [pc EXCEPT ![t] = "restore"]
    /\ UNCHANGED <<USE_LEADING_END_BYTE, lock, scopes, born, event, linkVars,
                   received, queued, outcomes, codecVars,
                   wrapVars, spscVars>>

\* out = tx.send(msg), called by thread t
CallSend(t) ==
    /\ pc[t] = "run"
    /\ \E message \in SendMsgs :
           /\ msg' = message
           /\ out' = Return(send(tx, message))
    /\ op' = "send"
    /\ UNCHANGED <<USE_LEADING_END_BYTE, cfgVars, linkVars, rxVars,
                   wrapVars, spscVars>>

NextConfig ==
    \E t \in Threads :
        \/ Call(t)
        \/ Acquire(t) /\ UNCHANGED event
        \/ Save(t)
        \/ Install(t)
        \/ ExitBody(t)
        \/ Restore(t)
        \/ Release(t)
        \/ Assign(t)
        \/ Construct(t)
        \/ AcceptCall(t)
        \/ AcceptConstruct(t)
        \/ CallSend(t)

SpecConfig == InitConfig /\ [][NextConfig]_vars

C16_FixedAtConstruction ==
    [][USE_LEADING_END_BYTE' # USE_LEADING_END_BYTE =>
           /\ \A m \in SendMsgs : (send(tx, m))' = send(tx, m)
           /\ (sends_leading_end_byte(tx))' = sends_leading_end_byte(tx)
           /\ op = "send" => (send(tx, msg))' = out.val]_vars

\* tx has sent under one value of the setting, and a thread is now inside a
\* scope that installed the other value
C16_Witness ==
    /\ op = "send"
    /\ born.setting # USE_LEADING_END_BYTE
    /\ sends_leading_end_byte(tx) = born.setting
    /\ \E t \in Threads : InBody(t) /\ Top(t).value = USE_LEADING_END_BYTE

\* C17: use_leading_end_byte(v) installs v when its body starts and the
\* setting is v during the body; when the body has ended, by its end or by an
\* exception, the setting is again what it was when the scope was entered,
\* and leaving the scope gives up the lock once: it is free again when the
\* outermost scope is left.
C17_ScopedOverride ==
    [][\A t \in Threads :
           /\ pc[t] = "install" /\ pc'[t] = "run" =>
                  USE_LEADING_END_BYTE' = Top(t).value
           /\ pc'[t] = "run" /\ scopes'[t] # <<>> =>
                  /\ USE_LEADING_END_BYTE' = scopes'[t][Len(scopes'[t])].value
                  /\ lock'.owner = t
           /\ pc'[t] = "release" =>
                  USE_LEADING_END_BYTE' = scopes'[t][Len(scopes'[t])].entry
           /\ pc[t] = "release" /\ pc'[t] = "run" =>
                  /\ USE_LEADING_END_BYTE' = Top(t).entry
                  /\ lock'.count = lock.count - 1
                  /\ lock'.owner = (IF Len(scopes[t]) = 1 THEN NoThread ELSE t)]_vars

\* the body of a scope raised, and the finally clause has put back the value
\* of the entry, which is not the value installed
C17_Witness ==
    \E t \in Threads :
        /\ pc[t] = "release"
        /\ Top(t).raised
        /\ Top(t).value # Top(t).entry
        /\ USE_LEADING_END_BYTE = Top(t).entry

\* C18: scopes nested in one thread compose: an inner scope is entered under
\* the value of the scope around it, inside the inner scope the setting is
\* the inner value, once the inner scope has restored it is the value of the
\* scope around it, once the outermost has restored it is the value from
\* before it; the thread that holds the lock for an outer scope is never
\* kept waiting for it at the entry of an inner one.
C18_NestedScopes ==
    \A t \in Threads :
        LET s == scopes[t]
            n == Len(s)
        IN  /\ \A k \in 2..AcquiredDepth(t) : s[k].entry = s[k - 1].value
            /\ pc[t] = "run" /\ n >= 2 => USE_LEADING_END_BYTE = s[n].value
            /\ pc[t] = "release" /\ n >= 2 => USE_LEADING_END_BYTE = s[n - 1].value
            /\ pc[t] = "release" /\ n = 1 => USE_LEADING_END_BYTE = s[1].entry
            /\ pc[t] = "acquire" /\ n >= 2 => ENABLED Acquire(t)

\* a thread is in the body of a scope nested in a scope of the other value,
\* entered when the setting had the inner value
C18_Witness ==
    \E t \in Threads :
        /\ InBody(t)
        /\ Len(scopes[t]) = 2
        /\ scopes[t][1].value # scopes[t][2].value
        /\ scopes[t][1].entry = scopes[t][2].value
        /\ USE_LEADING_END_BYTE = scopes[t][2].value

\* thread t has passed the with statement of a scope it has not left
HoldsScope(t) == AcquiredDepth(t) > 0

\* C19: scoped overrides of different threads do not overlap: at most one
\* thread is between the entry and the exit of a scope; while a thread is
\* under its override the setting is the value it installed, and neither the
\* entry of another thread into a scope nor another thread's assignment of
\* the setting can take a step before the scope is left.
C19_Serialized ==
    /\ \A t, u \in Threads : t # u => ~(HoldsScope(t) /\ HoldsScope(u))
    /\ \A t \in Threads :
           Override(t).inside => USE_LEADING_END_BYTE = Override(t).value
    /\ \A t, u \in Threads :
           t # u /\ HoldsScope(t) => ~ENABLED Acquire(u) /\ ~ENABLED Assign(u)

\* one thread is in the body of a scope that changed the setting while the
\* other waits at the entry of a scope with the opposite value
C19_Witness ==
    \E t, u \in Threads :
        /\ InBody(t)
        /\ Top(t).value # Top(t).entry
        /\ pc[u] = "acquire"
        /\ Top(u).value # Top(t).value
        /\ USE_LEADING_END_BYTE = Top(t).value

\* C20 as claimed: a Driver constructed inside a scope of its thread
\* captures the overridden value; a Driver constructed outside every scope of
\* its thread captures the setting without any override, also while
\* another thread is inside a scope.
C20_AsClaimed ==
    /\ born.own.inside => (sends_leading_end_byte(tx) <=> born.own.value)
    /\ ~born.own.inside => (sends_leading_end_byte(tx) <=> born.base)

\* C20: a Driver constructed inside a scope of its thread captures the
\* overridden value; constructed while no thread is under an override it
\* captures the setting as assigned; constructed by a thread outside every
\* scope of its own while another thread is under its override, it captures
\* the value that other thread installed.
C20_CaptureAtConstruction ==
    /\ born.own.inside => (sends_leading_end_byte(tx) <=> born.own.value)
    /\ ~born.own.inside /\ born.other.inside =>
           (sends_leading_end_byte(tx) <=> born.other.value)
    /\ ~born.own.inside /\ ~born.other.inside =>
           (sends_leading_end_byte(tx) <=> born.base)

\* a thread outside every scope of its own constructed tx while the other
\* thread was under an override that differs from the setting around it
C20_Witness ==
    /\ born.by \in Threads
    /\ ~born.own.inside
    /\ born.other.inside
    /\ born.other.value # born.base
    /\ sends_leading_end_byte(tx) = born.other.value

\* C28: when accept returns, the Driver of the SlipSocket it returns sends a
\* leading END exactly if the Driver of the listening SlipSocket does,
\* whatever the setting was, and the setting is what it was when accept
\* entered its scope: accept leaves the setting as it found it.
C28_AcceptInherits ==
    [][\A t \in Threads :
           (pc[t] = "release" /\ pc'[t] = "run" /\ Top(t).accept) =>
               /\ sends_leading_end_byte(rx')
                      <=> sends_leading_end_byte(Top(t).listener)
               /\ USE_LEADING_END_BYTE' = Top(t).entry]_vars

\* accept is about to return: the setting differs from the behaviour of the
\* listening socket, the accepted Driver has the listener's behaviour, and
\* the setting is back at its value
C28_Witness ==
    \E t \in Threads :
        /\ pc[t] = "release"
        /\ Top(t).accept
        /\ Top(t).entry # sends_leading_end_byte(Top(t).listener)
        /\ sends_leading_end_byte(rx) = sends_leading_end_byte(Top(t).listener)
        /\ USE_LEADING_END_BYTE = Top(t).entry

(***************************************************************************)
(* SpecWrapper: one SlipWrapper over a stream.  Its Driver is rx.  The     *)
(* peer has written the bytes of wire and then closed: recv_bytes returns  *)
(* the next bytes in chunks of any size up to MaxChunk, and b"" once none  *)
(* is left; a transport call may also raise, which happens at most once.   *)
(* recv_msg runs its loop one statement per step; the iterator calls       *)
(* recv_msg.                                                               *)
(***************************************************************************)
\* most bytes the peer writes before it closes the stream
MaxStream == 4
\* most bytes one recv_bytes call returns
MaxChunk == 3
\* most recv_msg calls, made directly or by the iterator
MaxCalls == 3

\* the bytes of the stream: an ordinary byte, END, and ESC, which makes a
\* frame invalid when an ordinary byte or nothing follows it
StreamByte == {NUL, END, ESC}

\* what a transport method raises: the methods of the base class raise
\* NotImplementedError, those of a subclass the errors of its stream
Failures == {"NotImplementedError", "OSError"}

\* the outcome of a call that raises a failure of the transport
Raised(failure) == [kind |-> failure, val |-> <<>>]

\* a plausible slip: a failed read is taken for the end of the data
recv_failed_as_eof(d, failure) ==
    [driver |-> receive(d, <<>>), outcome |-> Raised(failure)]

\* recv_msg when recv_bytes raises: the loop has no except clause, the Driver
\* is not called
recv_failed(d, failure) == [driver |-> d, outcome |-> Raised(failure)]

\* a plausible slip: the iterator yields whatever recv_msg returns
stops_never(message) == FALSE

\* __iter__ leaves its loop: "if not msg: break"
stops(message) == message = <<>>

InitWrapper ==
    /\ USE_LEADING_END_BYTE = FALSE
    /\ tx = Driver_init(USE_LEADING_END_BYTE)
    /\ rx = Driver_init(USE_LEADING_END_BYTE)
    /\ wire \in BSeq(StreamByte, MaxStream)
    /\ sent = <<>>
    /\ received = <<>>
    /\ queued = <<>>
    /\ outcomes = <<>>
    /\ CodecIdle
    /\ ConfigIdle
    /\ WrapperIdle
    /\ SpscIdle

\* recv_msg ends with the given outcome; an iterator that made the call
\* yields the message, or ends: on an empty message by break, on an
\* exception because the exception leaves the generator
Finish(outcome) ==
    /\ returned' = Append(returned, outcome)
    /\ call' = [pc |-> "idle", data |-> <<>>]
    /\ iteration' =
           IF iteration.gen # "live" THEN iteration
           ELSE IF outcome.kind = "return" /\ ~stops(outcome.val)
                THEN [iteration EXCEPT !.calls = @ + 1,
                                       !.yielded = Append(@, outcome.val)]
                ELSE [iteration EXCEPT !.calls = @ + 1, !.gen = "done"]

\* wrapper.recv_msg() is called
CallRecvMsg ==
    /\ call.pc = "idle"
    /\ iteration.gen # "live"
    /\ Len(returned) < MaxCalls
    /\ call' = [call EXCEPT !.pc = "get"]
    /\ UNCHANGED <<USE_LEADING_END_BYTE, linkVars, rxVars, codecVars, cfgVars,
                   stream, returned, iteration, spscVars>>

\* iter(wrapper): a for loop over the wrapper starts
IterStart ==
    /\ call.pc = "idle"
    /\ iteration.gen # "live"
    /\ Len(returned) < MaxCalls
    /\ iteration' = [gen |-> "live", start |-> Len(returned), calls |-> 0,
                     yielded |-> <<>>]
    /\ UNCHANGED <<USE_LEADING_END_BYTE, linkVars, rxVars, codecVars, cfgVars,
                   stream, call, returned, spscVars>>

\* next(iterator): the generator calls recv_msg
IterNext ==
    /\ call.pc = "idle"
    /\ iteration.gen = "live"
    /\ call' = [call EXCEPT !.pc = "get"]
    /\ UNCHANGED <<USE_LEADING_END_BYTE, linkVars, rxVars, codecVars, cfgVars,
                   stream, returned, iteration, spscVars>>

\* the test of the while loop: message := self.driver.get(block=False)
TryGet ==
    /\ call.pc = "get"
    /\ RxGet(FALSE, "None")
    /\ IF get(rx).outcome.kind = "None"
       THEN /\ call' = [call EXCEPT !.pc = "recv_bytes"]
            /\ UNCHANGED <<returned, iteration>>
       ELSE Finish(get(rx).outcome)
    /\ UNCHANGED <<USE_LEADING_END_BYTE, linkVars, codecVars, cfgVars, stream,
                   spscVars>>

\* data = self.recv_bytes(): it raises, or returns the next bytes of the
\* stream, or b"" at its end
RecvBytes ==
    /\ call.pc = "recv_bytes"
    /\ \/ \E failure \in Failures :
              /\ stream.failed = "none"
              /\ stream' = [stream EXCEPT !.failed = "recv_bytes", !.failure = failure]
              /\ rx' = recv_failed(rx, failure).driver
              /\ Finish(recv_failed(rx, failure).outcome)
              /\ UNCHANGED wire
       \/ /\ wire # <<>>
          /\ \E k \in 1..Min(MaxChunk, Len(wire)) :
                 /\ call' = [pc |-> "receive", data |-> SubSeq(wire, 1, k)]
                 /\ wire' = SubSeq(wire, k + 1, Len(wire))
          /\ UNCHANGED <<rx, stream, returned, iteration>>
       \/ /\ wire = <<>>
          /\ call' = [pc |-> "receive", data |-> <<>>]
          /\ stream' = [stream EXCEPT !.eof = TRUE]
          /\ UNCHANGED <<rx, wire, returned, iteration>>
    /\ UNCHANGED <<USE_LEADING_END_BYTE, tx, sent, received, queued, outcomes,
                   codecVars, cfgVars, spscVars>>

\* self.driver.receive(data), and back to the test of the loop
FeedDriver ==
    /\ call.pc = "receive"
    /\ RxReceive(call.data)
    /\ call' = [pc |-> "get", data |-> <<>>]
    /\ UNCHANGED <<USE_LEADING_END_BYTE, linkVars, codecVars, cfgVars, stream,
                   returned, iteration, spscVars>>

\* wrapper.send_msg(msg): the packet is handed to send_bytes, which returns
\* or raises
CallSendMsg ==
    /\ op = "idle"
    /\ \E message \in SendMsgs, failure \in Failures \cup {"none"} :
           /\ failure # "none" => stream.failed = "none"
           /\ msg' = message
           /\ sent' = Append(sent, message)
           /\ stream' = IF failure = "none"
                        THEN [stream EXCEPT !.handed = Append(@, send_msg(rx, message))]
                        ELSE [stream EXCEPT !.handed = Append(@, send_msg(rx, message)),
                                            !.failed = "send_bytes",
                                            !.failure = failure]
           /\ out' = IF failure = "none" THEN None ELSE Raised(failure)
    /\ op' = "send_msg"
    /\ UNCHANGED <<USE_LEADING_END_BYTE, tx, wire, rxVars, cfgVars, call,
                   returned, iteration, spscVars>>

NextWrapper ==
    \/ CallRecvMsg
    \/ IterStart
    \/ IterNext
    \/ TryGet
    \/ RecvBytes
    \/ FeedDriver
    \/ CallSendMsg

SpecWrapper == InitWrapper /\ [][NextWrapper]_vars

(***************************************************************************)
(* Claims about the SlipWrapper (checked under SpecWrapper)                *)
(***************************************************************************)
\* C22: recv_msg calls recv_bytes only when its Driver has no packet queued
\* and the end of the stream is not marked, and never after recv_bytes has
\* returned b""; when the test of its loop finds a packet queued it ends
\* without a read and takes that packet only, the packets behind it stay.
C22_ReadsOnlyWhenNeeded ==
    [][/\ (call.pc = "recv_bytes" /\ call' # call) =>
              /\ rx._packets = <<>>
              /\ ~rx._finished
              /\ ~stream.eof
       /\ (call.pc = "get" /\ call' # call /\ rx._packets # <<>>) =>
              /\ call'.pc = "idle"
              /\ wire' = wire
              /\ rx'._packets = Tail(rx._packets)
              /\ Len(returned') = Len(returned) + 1
       /\ (call.pc = "get" /\ call' # call /\ rx._packets = <<>> /\ rx._finished) =>
              /\ call'.pc = "idle"
              /\ wire' = wire
              /\ returned' = Append(returned, Return(<<>>))]_vars

\* the first recv_msg call has returned the first of two frames that its
\* last read completed together; the second one is kept in the queue
C22_Witness ==
    /\ call.pc = "idle"
    /\ Len(returned) = 1
    /\ returned[1].kind = "return"
    /\ Len(queued) = 2
    /\ rx._packets = <<queued[2]>>
    /\ ~stream.eof

\* the outcome of a recv_msg call that took a packet
IsFrameOutcome(r) ==
    r.kind = "ProtocolError" \/ (r.kind = "return" /\ r.val # <<>>)

\* C23: the recv_msg calls that took a packet have, in call order, the
\* outcomes of the frames of the stream in stream order: the message of a
\* valid frame, one ProtocolError for each invalid frame; so the call after a
\* ProtocolError, direct or of a fresh iterator, has the outcome of the frame
\* behind the invalid one, and the frames not taken yet are all still queued.
C23_ErrorRecovery ==
    LET frames == FramesOf(received)
        rs == SelectSeq(returned, IsFrameOutcome)
    IN  /\ Len(rs) <= Len(frames)
        /\ \A i \in 1..Len(rs) :
               /\ WellFormed(frames[i]) => rs[i] = Return(UnescapePairs(frames[i]))
               /\ ~WellFormed(frames[i]) => rs[i] = ProtocolError(frames[i])
        /\ rx._packets = SubSeq(frames, Len(rs) + 1, Len(frames))

\* recv_msg has raised ProtocolError, and an iterator started after it has
\* yielded the message of the next frame
C23_Witness ==
    /\ Len(returned) = 2
    /\ returned[1].kind = "ProtocolError"
    /\ returned[2].kind = "return"
    /\ iteration.start = 1
    /\ iteration.yielded = <<returned[2].val>>
    /\ iteration.yielded # <<<<>>>>

\* C24: the values an iterator has yielded are the values its recv_msg calls
\* returned, in order; it ends with the first call that returns b"" (or
\* raises), and b"" is not yielded.
C24_Iteration ==
    LET n == iteration.calls
        its == SubSeq(returned, iteration.start + 1, iteration.start + n)
        ys == iteration.yielded
    IN  /\ \A i \in 1..Len(ys) : ys[i] # <<>>
        /\ iteration.gen = "none" => n = 0 /\ ys = <<>>
        /\ iteration.gen = "live" =>
               /\ Len(ys) = n
               /\ \A i \in 1..n : its[i] = Return(ys[i])
        /\ iteration.gen = "done" =>
               /\ n >= 1
               /\ Len(ys) = n - 1
               /\ \A i \in 1..(n - 1) : its[i] = Return(ys[i])
               /\ its[n].kind = "return" => its[n].val = <<>>

\* an iterator has yielded two messages and ended when its third recv_msg
\* call returned b""
C24_Witness ==
    /\ iteration.gen = "done"
    /\ iteration.start = 0
    /\ Len(iteration.yielded) = 2
    /\ Len(returned) = 3
    /\ returned[3] = Return(<<>>)

\* C25: when recv_bytes raises, recv_msg ends with that failure as its
\* outcome and the Driver is as before the call: buffer, queue and
\* end-of-stream mark; when send_bytes raises, send_msg ends with that
\* failure as its outcome.
C25_TransportFailures ==
    [][/\ (stream.failed = "none" /\ stream'.failed = "recv_bytes") =>
              /\ call'.pc = "idle"
              /\ returned' = Append(returned, Raised(stream'.failure))
              /\ rx' = rx
       /\ (stream.failed = "none" /\ stream'.failed = "send_bytes") =>
              /\ op' = "send_msg"
              /\ out' = Raised(stream'.failure)
              /\ rx' = rx]_vars

\* recv_bytes of the base class has raised NotImplementedError in the
\* second recv_msg call while the Driver held buffered bytes, which are
\* still there
C25_Witness ==
    /\ stream.failed = "recv_bytes"
    /\ stream.failure = "NotImplementedError"
    /\ Len(returned) = 2
    /\ returned[2] = Raised("NotImplementedError")
    /\ rx._recv_buffer # <<>>

(***************************************************************************)
(* FairSpecRecv: the receiving side of the wrapper alone, over a stream    *)
(* that ends: every read takes at least one byte of it, and after its last *)
(* byte recv_bytes returns b"".  A running recv_msg goes on, and a for     *)
(* loop over the wrapper asks for the next message.                        *)
(***************************************************************************)
\* a wrapper and its Driver as constructed, over a stream that holds one byte
\* less than the longest stream of SpecWrapper
InitRecv ==
    /\ InitWrapper
    /\ Len(wire) < MaxStream

NextRecv ==
    \/ CallRecvMsg
    \/ IterStart
    \/ IterNext
    \/ TryGet
    \/ RecvBytes
    \/ FeedDriver

SpecRecv == InitRecv /\ [][NextRecv]_vars

FairSpecRecv ==
    /\ SpecRecv
    /\ WF_vars(TryGet)
    /\ WF_vars(RecvBytes)
    /\ WF_vars(FeedDriver)
    /\ WF_vars(IterNext)

\* the last frame has been consumed: the stream has ended and the Driver has
\* neither a packet nor buffered bytes
Consumed ==
    stream.eof /\ rx._finished /\ rx._packets = <<>> /\ rx._recv_buffer = <<>>

\* C31: over a stream that ends, every recv_msg call ends and every iteration
\* over the wrapper ends; a call that starts after the last frame was
\* consumed returns b"", so that in the sequence of the calls' results b"" is
\* followed by b"" only.
C31_Termination ==
    /\ (call.pc # "idle") ~> (call.pc = "idle")
    /\ (iteration.gen = "live") ~> (iteration.gen = "done")
    /\ [][(Consumed /\ call.pc = "get" /\ call'.pc # "get") =>
              /\ call'.pc = "idle"
              /\ returned' = Append(returned, Return(<<>>))]_vars
    /\ [](\A i \in 1..Len(returned) : \A j \in i..Len(returned) :
              returned[i] = Return(<<>>) =>
                  (Consumed /\ returned[j] = Return(<<>>)))

\* an iteration has yielded the message of the frame of the stream and has
\* ended, and a recv_msg call made after it has returned b"" again
C31_Witness ==
    /\ call.pc = "idle"
    /\ iteration.gen = "done"
    /\ iteration.start = 0
    /\ Len(iteration.yielded) = 1
    /\ Len(returned) = 3
    /\ returned[2] = Return(<<>>)
    /\ returned[3] = Return(<<>>)

(***************************************************************************)
(* SpecSpsc: one Driver shared by two threads, the producer calling        *)
(* receive and the consumer calling get.  The threads meet at the          *)
(* queue.Queue _packets, whose put and get are atomic, and at _finished,   *)
(* which receive writes and the except clause of get reads.  A step is one *)
(* access to the shared state; _recv_buffer is the producer's alone.       *)
(***************************************************************************)
InitSpsc == DriverIdle /\ CodecIdle /\ ConfigIdle /\ WrapperIdle /\ SpscIdle

\* self._packets.put(packet)
put(d, packet) == [d EXCEPT !._packets = Append(@, packet)]

\* the producer enters receive(data): _finished is set for empty data, the
\* buffer is split, the last piece is the new buffer and the others wait in
\* new_packets for the for loop
ProducerReceive ==
    /\ producer.pc = "idle"
    /\ Len(received) < MaxStream
    /\ \E data \in BSeq(StreamByte, Min(MaxChunk, MaxStream - Len(received))) :
           LET after == receive(rx, data)
               new_packets == SubSeq(after._packets, Len(rx._packets) + 1,
                                     Len(after._packets))
           IN  /\ rx' = [rx EXCEPT !._finished = after._finished,
                                   !._recv_buffer = after._recv_buffer]
               /\ received' = received \o (IF data = <<>> THEN <<END>> ELSE data)
               /\ producer' = [pc |-> IF new_packets = <<>> THEN "idle" ELSE "put",
                               pending |-> new_packets]
    /\ UNCHANGED <<USE_LEADING_END_BYTE, linkVars, codecVars, cfgVars, wrapVars,
                   queued, outcomes, consumer, receiving>>

\* one round of the for loop: the next new packet is put in the queue
ProducerPut ==
    /\ producer.pc = "put"
    /\ rx' = put(rx, Head(producer.pending))
    /\ queued' = Append(queued, Head(producer.pending))
    /\ producer' = [pc |-> IF Len(producer.pending) = 1 THEN "idle" ELSE "put",
                    pending |-> Tail(producer.pending)]
    /\ UNCHANGED <<USE_LEADING_END_BYTE, linkVars, codecVars, cfgVars, wrapVars,
                   received, outcomes, consumer, receiving>>

\* the consumer enters get(block, timeout) and with it Queue.get
ConsumerCall ==
    /\ consumer.pc = "idle"
    /\ \E block \in BOOLEAN, timeout \in Timeout :
           consumer' = [pc |-> "get", block |-> block, timeout |-> timeout,
                        found_empty |-> rx._packets = <<>>,
                        result |-> consumer.result]
    /\ UNCHANGED <<USE_LEADING_END_BYTE, linkVars, codecVars, cfgVars, wrapVars,
                   rxVars, producer, receiving>>

\* Queue.get ends: it takes the packet at the head, which get decodes, or it
\* raises Empty; a get with block and without timeout waits here while the
\* queue is empty
ConsumerQueueGet ==
    /\ consumer.pc = "get"
    /\ returns(rx, consumer.block, consumer.timeout)
    /\ IF rx._packets # <<>>
       THEN /\ rx' = get(rx).driver
            /\ outcomes' = Append(outcomes, get(rx).outcome)
            /\ consumer' = [consumer EXCEPT !.pc = "idle",
                                            !.result = get(rx).outcome]
       ELSE /\ consumer' = [consumer EXCEPT !.pc = "empty"]
            /\ UNCHANGED <<rx, outcomes>>
    /\ UNCHANGED <<USE_LEADING_END_BYTE, linkVars, codecVars, cfgVars, wrapVars,
                   received, queued, producer, receiving>>

\* the except clause: _finished is read after Empty was raised, whatever
\* the producer has put in the meantime
ConsumerEmpty ==
    /\ consumer.pc = "empty"
    /\ consumer' = [consumer EXCEPT
                        !.pc = "idle",
                        !.result = get([rx EXCEPT !._packets = <<>>]).outcome]
    /\ UNCHANGED <<USE_LEADING_END_BYTE, linkVars, codecVars, cfgVars, wrapVars,
                   rxVars, producer, receiving>>

NextSpsc ==
    \/ ProducerReceive
    \/ ProducerPut
    \/ ConsumerCall
    \/ ConsumerQueueGet
    \/ ConsumerEmpty

SpecSpsc == InitSpsc /\ [][NextSpsc]_vars

\* put notifies the condition not_empty and the scheduler runs the consumer
\* thread: a Queue.get that can end does end
FairSpecSpsc == SpecSpsc /\ WF_vars(ConsumerQueueGet)

\* the outcome get has for a packet
Reading(packet) ==
    IF WellFormed(packet) THEN Return(UnescapePairs(packet))
    ELSE ProtocolError(packet)

\* a get with block=True and no timeout is inside Queue.get
Blocking ==
    consumer.pc = "get" /\ consumer.block /\ consumer.timeout = "None"

\* C26: with one thread in receive and one other thread in get, under every
\* interleaving of their steps the frames recognised by receive reach the
\* consumer once each and in the order of recognition: the packets put are
\* the frames of the stream, the consumer's outcomes are the readings of the
\* first of them and the others are in the queue; and a consumer that waits
\* in get(block=True) is released once the producer has queued a packet.
C26_SpscDelivery ==
    /\ [](/\ queued \o producer.pending = FramesOf(received)
          /\ Len(outcomes) <= Len(queued)
          /\ \A i \in 1..Len(outcomes) : outcomes[i] = Reading(queued[i])
          /\ rx._packets = SubSeq(queued, Len(outcomes) + 1, Len(queued)))
    /\ (Blocking /\ rx._packets # <<>>) ~> (consumer.pc = "idle")

\* the consumer entered a get without timeout on an empty queue and was
\* released with the first of two packets of one receive call, whose second
\* packet the producer has not put yet
C26_Witness ==
    /\ consumer.pc = "idle"
    /\ consumer.block
    /\ consumer.timeout = "None"
    /\ consumer.found_empty
    /\ outcomes = <<consumer.result>>
    /\ producer.pc = "put"
    /\ Len(producer.pending) = 1
    /\ Len(queued) = 1

(***************************************************************************)
(* Further claims about one Driver (checked under Spec)                    *)
(***************************************************************************)
\* C34: receive of an integer does what receive of the one-byte string with
\* that value does, and leaves _finished as it was; the integer 0 is the data
\* byte 00 and goes to the buffer, it is not the empty data that marks the end
\* of the stream.
C34_IntegerReceive ==
    [][ReceiveInt =>
           /\ \E n \in WireByte :
                  /\ received' = Append(received, n)
                  /\ rx' = receive(rx, <<n>>)
           /\ rx'._finished = rx._finished
           /\ receive(rx, int_to_bytes(NUL)) =
                  [rx EXCEPT !._recv_buffer = Append(@, NUL)]]_vars

\* the byte 00 is in the buffer after a first receive, the end of the stream
\* is not marked
C34_Witness ==
    /\ received = <<NUL>>
    /\ rx._recv_buffer = <<NUL>>
    /\ rx._packets = <<>>
    /\ ~rx._finished

\* the bytes of s that are not END, in order
NonEnd(s) == SelectSeq(s, LAMBDA b : b # END)

\* C37: after any sequence of receive and get calls the bytes received that
\* are not END are, in order, the packets already taken by get (returned as a
\* message or rejected), then the packets in the queue, then the buffer.
C37_ByteConservation ==
    LET taken == SubSeq(queued, 1, Len(queued) - Len(rx._packets))
    IN  /\ Len(rx._packets) <= Len(queued)
        /\ Len(taken) = Len(outcomes)
        /\ \A i \in 1..Len(taken) :
               outcomes[i] \in {Return(UnescapePairs(taken[i])), ProtocolError(taken[i])}
        /\ rx._packets = SubSeq(queued, Len(taken) + 1, Len(queued))
        /\ NonEnd(received) = Concat(taken) \o Concat(rx._packets) \o rx._recv_buffer

\* one packet was rejected by get, one is in the queue, a byte is buffered,
\* and more END bytes were received than packets were queued
C37_Witness ==
    /\ Len(outcomes) = 1
    /\ outcomes[1].kind = "ProtocolError"
    /\ Len(rx._packets) = 1
    /\ rx._recv_buffer # <<>>
    /\ Len(received) > Len(NonEnd(received)) + Len(queued)

(***************************************************************************)
(* SpecDriver: one Driver on which receive, get and send are called in any *)
(* order; op, msg and out hold the last call, its argument and its result. *)
(***************************************************************************)
\* a plausible slip: send starts a new packet and drops the bytes buffered
after_send_clears_buffer(d, message) == [d EXCEPT !._recv_buffer = <<>>]

\* the Driver after send(message): send assigns to no attribute
after_send(d, message) == d

\* rx.receive(data), bytes of any length, empty included
DriverReceive ==
    /\ Len(received) < MaxRecv
    /\ \E data \in BSeq(StreamByte, Min(MaxData, MaxRecv - Len(received))) :
           /\ RxReceive(data)
           /\ msg' = data
    /\ op' = "receive"
    /\ out' = None
    /\ UNCHANGED <<USE_LEADING_END_BYTE, linkVars, cfgVars, wrapVars, spscVars>>

\* rx.get(block=block, timeout=timeout)
DriverGet ==
    /\ \E block \in BOOLEAN, timeout \in Timeout : RxGet(block, timeout)
    /\ op' = "get"
    /\ msg' = <<>>
    /\ out' = get(rx).outcome
    /\ UNCHANGED <<USE_LEADING_END_BYTE, linkVars, cfgVars, wrapVars, spscVars>>

\* rx.send(message)
DriverSend ==
    /\ \E message \in SendMsgs :
           /\ rx' = after_send(rx, message)
           /\ msg' = message
           /\ out' = Return(send(rx, message))
    /\ op' = "send"
    /\ UNCHANGED <<USE_LEADING_END_BYTE, linkVars, received, queued, outcomes,
                   cfgVars, wrapVars, spscVars>>

NextDriver == DriverReceive \/ DriverGet \/ DriverSend

SpecDriver == Init /\ [][NextDriver]_vars

\* C40: send changes nothing of the Driver: buffer, queue, end-of-stream mark
\* and captured prefix are as before; get changes neither the buffer nor the
\* end-of-stream mark nor the prefix and takes at most the head of the queue;
\* a step that changes the buffer is a receive.
C40_FrameEffects ==
    [][/\ op' = "send" => rx' = rx
       /\ op' = "get" =>
              /\ rx'._recv_buffer = rx._recv_buffer
              /\ rx'._finished = rx._finished
              /\ rx'._prefix = rx._prefix
              /\ \/ rx'._packets = rx._packets
                 \/ rx._packets # <<>> /\ rx'._packets = Tail(rx._packets)
       /\ rx'._recv_buffer # rx._recv_buffer => op' = "receive"]_vars

\* the last call was a send of an END byte, on a Driver that holds buffered
\* bytes and a queued packet and has the end of the stream marked
C40_Witness ==
    /\ op = "send"
    /\ msg = <<END>>
    /\ out = Return(<<ESC, ESC_END, END>>)
    /\ rx._recv_buffer # <<>>
    /\ rx._packets # <<>>
    /\ rx._finished

\* C36: after any sequence of receive, get and send calls every packet in the
\* queue is non-empty and holds no END byte, and the buffer holds no END byte.
C36_NoEndInside ==
    /\ \A i \in 1..Len(rx._packets) :
           /\ rx._packets[i] # <<>>
           /\ ~contains(rx._packets[i], END)
    /\ ~contains(rx._recv_buffer, END)

\* two END bytes in a row were received; of the two packets queued one was
\* taken by a get and one is in the queue, bytes are buffered, and the last
\* call was a send
C36_Witness ==
    /\ op = "send"
    /\ Len(queued) = 2
    /\ Len(outcomes) = 1
    /\ Len(rx._packets) = 1
    /\ rx._recv_buffer # <<>>
    /\ \E i \in 1..(Len(received) - 1) : received[i] = END /\ received[i + 1] = END

\* C39: _finished is false at construction; it becomes true by a receive with
\* empty data only, and once true it stays true over every receive, get and
\* send.  From then on get does not return None: with an empty queue it
\* returns b"", and the packets that receive calls after the end of the stream
\* complete are queued and returned by get like any other.
C39_EndOfStreamMonotonic ==
    /\ ~rx._finished
    /\ [][/\ rx._finished => rx'._finished
          /\ (~rx._finished /\ rx'._finished) => (op' = "receive" /\ msg' = <<>>)
          /\ (rx._finished /\ op' = "receive") =>
                 queued' = queued \o FramesOf(rx._recv_buffer \o
                               (IF msg' = <<>> THEN <<END>> ELSE msg'))
          /\ (rx._finished /\ op' = "get") =>
                 /\ out' # None
                 /\ rx._packets = <<>> => out' = Return(<<>>)
                 /\ rx._packets # <<>> =>
                        /\ out' = Reading(Head(rx._packets))
                        /\ rx'._packets = Tail(rx._packets)]_vars

\* the end of the stream was marked before the last call, a receive of a whole
\* frame, whose packet is in the queue and is what the next get returns
C39_Witness ==
    /\ op = "receive"
    /\ msg = <<NUL, END>>
    /\ rx._finished
    /\ rx._recv_buffer = <<>>
    /\ rx._packets = <<<<NUL>>>>
    /\ get(rx).outcome = Return(<<NUL>>)

(***************************************************************************)
(* SpecLinkClose: the sender and the receiver of SpecLink, and a           *)
(* connection that can be closed: the receiving side then reads b"" and    *)
(* passes it to receive.                                                   *)
(***************************************************************************)
\* the connection is closed with nothing left on the wire: rx.receive(b"")
Close ==
    /\ wire = <<>>
    /\ ~rx._finished
    /\ Written <= MaxWire
    /\ RxReceive(<<>>)
    /\ UNCHANGED <<USE_LEADING_END_BYTE, linkVars, codecVars, cfgVars,
                   wrapVars, spscVars>>

NextLinkClose == NextLink \/ Close

SpecLinkClose == InitLink /\ [][NextLinkClose]_vars

\* the messages of s that are not empty, in order
NonEmpty(s) == SelectSeq(s, LAMBDA m : m # <<>>)

\* C38: a get returns b"" exactly when the end of the stream is marked and no
\* packet is queued; no packet that was ever queued decodes to b"", so no get
\* that took a packet returned b"".  Hence the messages the receiver's gets
\* return are the non-empty messages sent, in order: an empty message, whose
\* packet is END bytes only, is delivered to nobody.
C38_EmptyIsEndMarker ==
    /\ get(rx).outcome = Return(<<>>) <=> (rx._finished /\ rx._packets = <<>>)
    /\ \A i \in 1..Len(queued) : decode(queued[i]) # Return(<<>>)
    /\ \A i \in 1..Len(outcomes) : outcomes[i] # Return(<<>>)
    /\ Len(outcomes) <= Len(NonEmpty(sent))
    /\ \A i \in 1..Len(outcomes) : outcomes[i] = Return(NonEmpty(sent)[i])
    /\ (wire = <<>> /\ sent # <<>>) =>
           Len(outcomes) + Len(rx._packets) = Len(NonEmpty(sent))

\* an empty message, a one-byte message and another empty message were sent;
\* the one get that took a packet returned the one-byte message, the
\* connection is closed and the next get returns the end marker
C38_Witness ==
    /\ sent = <<<<>>, <<NUL>>, <<>>>>
    /\ wire = <<>>
    /\ outcomes = <<Return(<<NUL>>)>>
    /\ rx._finished
    /\ rx._packets = <<>>
    /\ get(rx).outcome = Return(<<>>)

(***************************************************************************)
(* SpecStream: SlipStream.send_msg over a stream whose write accepts a     *)
(* part of the data it is given.  send_bytes is stepped write by write:    *)
(* call.data is the local packet, stream.handed the arguments of the write *)
(* calls, wire the bytes the stream has accepted.                          *)
(***************************************************************************)
\* a plausible slip: the slice starts one byte late
unwritten_skips_one(packet, number_of_bytes_written) ==
    SubSeq(packet, number_of_bytes_written + 2, Len(packet))

\* packet[number_of_bytes_written:]
unwritten(packet, number_of_bytes_written) ==
    SubSeq(packet, number_of_bytes_written + 1, Len(packet))

\* the numbers a write of data may return: at least one byte is accepted
accepted(data) == 1..Len(data)

\* send_msg(message): the packet of the Driver is passed to send_bytes, whose
\* loop is entered, a packet being non-empty
StreamSendMsg ==
    /\ call.pc = "idle"
    /\ \E message \in BSeq(MsgByte, MaxLen) :
           /\ Len(wire) + Len(send_msg(tx, message)) <= MaxRecv
           /\ sent' = Append(sent, message)
           /\ call' = [pc |-> "write", data |-> send_msg(tx, message)]
    /\ UNCHANGED <<USE_LEADING_END_BYTE, tx, wire, rxVars, codecVars, cfgVars,
                   stream, returned, iteration, spscVars>>

\* one round of the loop: stream.write(packet) accepts some bytes, the slice
\* is assigned to packet, and the test of the loop ends the call when the
\* packet is empty
StreamWrite ==
    /\ call.pc = "write"
    /\ \E number_of_bytes_written \in accepted(call.data) :
           LET rest == unwritten(call.data, number_of_bytes_written)
           IN  /\ stream' = [stream EXCEPT !.handed = Append(@, call.data)]
               /\ wire' = wire \o SubSeq(call.data, 1, number_of_bytes_written)
               /\ call' = [pc |-> IF rest = <<>> THEN "idle" ELSE "write",
                           data |-> rest]
    /\ UNCHANGED <<USE_LEADING_END_BYTE, tx, sent, rxVars, codecVars, cfgVars,
                   returned, iteration, spscVars>>

NextStream == StreamSendMsg \/ StreamWrite

SpecStream == Init /\ [][NextStream]_vars

\* stream.write returns, and the thread in send_bytes goes on
FairSpecStream == SpecStream /\ WF_vars(StreamWrite)

\* the packets of the messages of s, joined in order
Packets(s) == Concat([i \in 1..Len(s) |-> send(tx, s[i])])

\* C35: every write call is given the suffix of the packet that no earlier
\* write has accepted, which is never empty; the bytes accepted by the stream
\* are the bytes of the packets in order, none dropped and none twice; the
\* call ends with the write that accepts the last byte, and when every write
\* accepts at least one byte it does end.
C35_PartialWrites ==
    /\ [](/\ wire \o call.data = Packets(sent)
          /\ call.pc = "write" <=> call.data # <<>>
          /\ call.pc = "idle" => wire = Packets(sent))
    /\ [][call.pc = "write" =>
              /\ stream'.handed = Append(stream.handed, call.data)
              /\ call.data = SubSeq(Packets(sent), Len(wire) + 1, Len(Packets(sent)))
              /\ Len(wire') > Len(wire)]_vars
    /\ (call.pc = "write") ~> (call.pc = "idle")

\* the packet of a second message went out in three writes, the first of
\* which accepted one byte and the second a part of the rest
C35_Witness ==
    /\ call.pc = "idle"
    /\ Len(sent) = 2
    /\ Len(stream.handed) >= 4
    /\ LET n == Len(stream.handed)
       IN  /\ Len(stream.handed[n - 2]) = Len(stream.handed[n - 1]) + 1
           /\ Len(stream.handed[n - 1]) > Len(stream.handed[n]) + 1
           /\ stream.handed[n - 2] = send(tx, sent[2])

(***************************************************************************)
(* SpecGuard: the lock of use_leading_end_byte and a threading.Event.      *)
(* Thread A waits for the event once, inside or outside the body of its    *)
(* scope; thread B sets the event after it has passed through its own      *)
(* scope, as make_server of the docstring does.  Each thread enters one    *)
(* scope.                                                                  *)
(***************************************************************************)
Waiter == "A"
Setter == "B"

\* thread t calls use_leading_end_byte, which it has not done before
GuardCall(t) ==
    /\ t \notin event.entered
    /\ scopes[t] = <<>>
    /\ Call(t)

\* thread t gets the lock: it has entered its scope
Enter(t) ==
    /\ Acquire(t)
    /\ event' = [event EXCEPT !.entered = @ \cup {t}]

\* event.wait() is called by the waiter
Wait ==
    /\ pc[Waiter] = "run"
    /\ ~event.waited
    /\ pc' = [pc EXCEPT ![Waiter] = "wait"]
    /\ event' = [event EXCEPT !.waited = TRUE]
    /\ UNCHANGED <<USE_LEADING_END_BYTE, lock, scopes, born, linkVars, rxVars,
                   codecVars, wrapVars, spscVars>>

\* event.wait() returns: the event is set
WaitEnd ==
    /\ pc[Waiter] = "wait"
    /\ event.is_set
    /\ pc' = [pc EXCEPT ![Waiter] = "run"]
    /\ UNCHANGED <<USE_LEADING_END_BYTE, lock, scopes, born, event, linkVars,
                   rxVars, codecVars, wrapVars, spscVars>>

\* event.set() by the setter, behind its with statement
SetEvent ==
    /\ pc[Setter] = "run"
    /\ scopes[Setter] = <<>>
    /\ Setter \in event.entered
    /\ ~event.is_set
    /\ event' = [event EXCEPT !.is_set = TRUE]
    /\ UNCHANGED <<USE_LEADING_END_BYTE, lock, pc, scopes, born, linkVars,
                   rxVars, codecVars, wrapVars, spscVars>>

\* the steps of thread t
Step(t) ==
    \/ GuardCall(t)
    \/ Enter(t)
    \/ Save(t)
    \/ Install(t)
    \/ ExitBody(t)
    \/ Restore(t)
    \/ Release(t)
    \/ t = Waiter /\ Wait
    \/ t = Waiter /\ WaitEnd
    \/ t = Setter /\ SetEvent

NextGuard == \E t \in Threads : Step(t)

SpecGuard == InitConfig /\ [][NextGuard]_vars

\* both threads are scheduled: a thread that can take a step takes one
FairSpecGuard == SpecGuard /\ \A t \in Threads : WF_vars(Step(t))

\* the waiter waits inside the body of its scope
WaitsInside == pc[Waiter] = "wait" /\ scopes[Waiter] # <<>>

\* the waiter waits inside its body for an event that is not set, and the
\* setter has yet to enter its scope
Stuck == WaitsInside /\ ~event.is_set /\ Setter \notin event.entered

\* both threads have passed through their scopes, the event was set and the
\* wait has returned
Completed ==
    /\ \A t \in Threads : pc[t] = "run" /\ scopes[t] = <<>> /\ t \in event.entered
    /\ event.waited
    /\ event.is_set

\* C33: when a thread waits inside the body of use_leading_end_byte for an
\* event that the other thread sets only after entering its own scope, a
\* scope it has yet to enter, the waiter stays in the wait and the other
\* thread in front of its with statement for ever, and once it is there no
\* step is possible at all.  When the thread never waits inside the body,
\* but before or behind its scope, both threads complete.
C33_GuardDeadlock ==
    /\ [][Stuck => (Stuck' /\ pc'[Setter] \in {"run", "acquire"})]_vars
    /\ [](Stuck /\ pc[Setter] = "acquire" => ~ENABLED NextGuard)
    /\ ([]~WaitsInside) => <>[]Completed

\* the deadlock of the docstring: the waiter holds the lock and waits, the
\* setter is at its with statement
C33_Witness ==
    /\ Stuck
    /\ lock.owner = Waiter
    /\ pc[Setter] = "acquire"

(***************************************************************************)
(* SpecRace: two threads call receive once each on the same Driver, with   *)
(* no lock around the calls.  A step is one read or one write of an        *)
(* attribute of the Driver; receiving[t] holds the argument of the call of *)
(* thread t, its local data, the value it has read (local), the packets it *)
(* has split off and whether the other thread was inside receive when it   *)
(* started.                                                                *)
(***************************************************************************)
\* the byte values of the data of the two calls
RaceByte == {NUL, END}

\* the thread that is not t
Other(t) == CHOOSE u \in Threads : u # t

\* thread t is inside receive
Inside(t) == receiving[t].pc \notin {"idle", "done"}

\* receive(data) is called by thread t: empty data sets _finished and is
\* replaced by END
RaceBegin(t) ==
    /\ receiving[t].pc = "idle"
    /\ \E data \in BSeq(RaceByte, MaxData) :
           /\ receiving' = [receiving EXCEPT ![t] =
                  [@ EXCEPT !.pc = "add_read", !.arg = data,
                            !.data = IF data = <<>> THEN <<END>> ELSE data,
                            !.overlapped = Inside(Other(t))]]
           /\ rx' = [rx EXCEPT !._finished = @ \/ data = <<>>]
           /\ received' = received \o (IF data = <<>> THEN <<END>> ELSE data)
    /\ UNCHANGED <<USE_LEADING_END_BYTE, linkVars, queued, outcomes, codecVars,
                   cfgVars, wrapVars, producer, consumer>>

\* thread t reads self._recv_buffer: in "+= data", in ".lstrip(END)" and in
\* the argument of re.split
RaceRead(t) ==
    /\ receiving[t].pc \in {"add_read", "strip_read", "split_read"}
    /\ receiving' = [receiving EXCEPT ![t] =
           [@ EXCEPT !.local = rx._recv_buffer,
                     !.pc = CASE @ = "add_read" -> "add_write"
                              [] @ = "strip_read" -> "strip_write"
                              [] @ = "split_read" -> "split_write"]]
    /\ UNCHANGED <<USE_LEADING_END_BYTE, linkVars, rxVars, codecVars, cfgVars,
                   wrapVars, producer, consumer>>

\* self._recv_buffer += data: the sum is stored
RaceAdd(t) ==
    /\ receiving[t].pc = "add_write"
    /\ rx' = [rx EXCEPT !._recv_buffer = receiving[t].local \o receiving[t].data]
    /\ receiving' = [receiving EXCEPT ![t].pc = "strip_read"]
    /\ UNCHANGED <<USE_LEADING_END_BYTE, linkVars, received, queued, outcomes,
                   codecVars, cfgVars, wrapVars, producer, consumer>>

\* self._recv_buffer = self._recv_buffer.lstrip(END): the result is stored
RaceStrip(t) ==
    /\ receiving[t].pc = "strip_write"
    /\ rx' = [rx EXCEPT !._recv_buffer = lstrip(receiving[t].local, END)]
    /\ receiving' = [receiving EXCEPT ![t].pc = "split_read"]
    /\ UNCHANGED <<USE_LEADING_END_BYTE, linkVars, received, queued, outcomes,
                   codecVars, cfgVars, wrapVars, producer, consumer>>

\* *new_packets, self._recv_buffer = re.split(...): the last piece is stored
RaceSplit(t) ==
    /\ receiving[t].pc = "split_write"
    /\ LET pieces == re_split(receiving[t].local)
           n == Len(pieces)
       IN  /\ rx' = [rx EXCEPT !._recv_buffer = pieces[n]]
           /\ receiving' = [receiving EXCEPT ![t] =
                  [@ EXCEPT !.new_packets = SubSeq(pieces, 1, n - 1),
                            !.pc = IF n = 1 THEN "done" ELSE "put"]]
    /\ UNCHANGED <<USE_LEADING_END_BYTE, linkVars, received, queued, outcomes,
                   codecVars, cfgVars, wrapVars, producer, consumer>>

\* one round of the for loop: self._packets.put(packet)
RacePut(t) ==
    /\ receiving[t].pc = "put"
    /\ rx' = put(rx, Head(receiving[t].new_packets))
    /\ queued' = Append(queued, Head(receiving[t].new_packets))
    /\ receiving' = [receiving EXCEPT ![t] =
           [@ EXCEPT !.new_packets = Tail(@),
                     !.pc = IF Len(receiving[t].new_packets) = 1 THEN "done" ELSE "put"]]
    /\ UNCHANGED <<USE_LEADING_END_BYTE, linkVars, received, outcomes,
                   codecVars, cfgVars, wrapVars, producer, consumer>>

NextRace ==
    \E t \in Threads :
        \/ RaceBegin(t)
        \/ RaceRead(t)
        \/ RaceAdd(t)
        \/ RaceStrip(t)
        \/ RaceSplit(t)
        \/ RacePut(t)

SpecRace == Init /\ [][NextRace]_vars

\* the Driver after the calls of t and then u, each run as a whole
Serial(t, u) ==
    receive(receive(Driver_init(FALSE), receiving[t].arg), receiving[u].arg)

\* both calls have returned
BothDone == \A t \in Threads : receiving[t].pc = "done"

\* the calls were serialized: neither started while the other was running
Serialized == \A t \in Threads : ~receiving[t].overlapped

\* C32: when the two receive calls are serialized the Driver ends as one of
\* the two serial orders leaves it, the one in which the calls were made;
\* a call that ran alone leaves the Driver as receive as a whole does.  (That
\* calls whose steps interleave can end in a state of neither serial order is
\* the state reached in C32_Witness.)
C32_SerializedReceive ==
    /\ \A t \in Threads :
           (receiving[t].pc = "done" /\ receiving[Other(t)].pc = "idle") =>
               rx = receive(Driver_init(FALSE), receiving[t].arg)
    /\ (BothDone /\ Serialized) =>
           /\ rx \in {Serial("A", "B"), Serial("B", "A")}
           /\ \E t \in Threads :
                  /\ rx = Serial(t, Other(t))
                  /\ received = (IF receiving[t].arg = <<>> THEN <<END>> ELSE receiving[t].arg)
                                \o receiving[Other(t)].data

\* the steps of the two calls interleaved and the Driver is in a state that
\* neither serial order produces: both calls passed one data byte, and the
\* queue and the buffer together hold a single byte, the other one is lost
C32_Witness ==
    /\ BothDone
    /\ ~Serialized
    /\ rx \notin {Serial("A", "B"), Serial("B", "A")}
    /\ \A t \in Threads : Len(NonEnd(receiving[t].arg)) = 1
    /\ Len(Concat(rx._packets) \o rx._recv_buffer) = 1

====
